---- MODULE Spec2Model ----
(***************************************************************************)
(* Factor library and long/short strategies of quantNotebooks.             *)
(*                                                                         *)
(* The repository holds several independent programs: the two factor       *)
(* catalogs (evaluated by the pipeline engine, one date at a time) and the *)
(* trading algorithms.  The variable algo says which program a behaviour   *)
(* runs; the variables of the other programs keep their initial value.     *)
(*                                                                         *)
(* Numbers are exact: a float is the pair <<n, d>> of the fraction n/d in  *)
(* lowest terms with d > 0; d = 0 encodes the IEEE specials, <<0, 0>> NaN, *)
(* <<1, 0>> +inf and <<-1, 0>> -inf.  Rounding is not modelled.            *)
(***************************************************************************)
EXTENDS Integers, Sequences, FiniteSets, TLC

VARIABLES
    algo,       \* the program this behaviour runs
    panel,      \* factors: the rows of the Panel received so far, oldest first
    results,    \* factors: run_pipeline's table, one record of factor vectors per date
    day,        \* strategies: the number of trading dates begun
    output,     \* strategies: the pipeline output of the current date (context.output)
    longs,      \* strategies: the long basket (context.longs / context.long_list)
    shorts,     \* strategies: the short basket (context.shorts / context.short_list)
    orders,     \* strategies: the orders placed by rebalance and not yet filled
    positions,  \* strategies: the securities context.portfolio.positions holds
    raised,     \* strategies: the exception that stopped the algorithm, "" if none
    namespace,  \* registries: the factors the catalog has defined so far
    all_factors, \* registries: the mapping from names to factors built so far
    stmt,       \* registries: the number of statements of the catalog executed
    clock,      \* schedules: the position of the algorithm in the trading day
    market,     \* schedules: what `data` answers at the current bar
    portfolio   \* schedules: context.portfolio (cash, signed holdings)

vars == <<algo, panel, results, day, output, longs, shorts, orders, positions, raised,
          namespace, all_factors, stmt, clock, market, portfolio>>
schedule_vars == <<clock, market, portfolio>>
registry_vars == <<namespace, all_factors, stmt>>
factor_vars == <<panel, results>>
strategy_vars == <<day, output, longs, shorts, orders, positions, raised>>

-----------------------------------------------------------------------------
(* Floating point values.                                                  *)

NaN == <<0, 0>>
Inf == <<1, 0>>
NInf == <<-1, 0>>
Num(n) == <<n, 1>>

IsNaN(a) == a = NaN
IsFinite(a) == a[2] # 0
IsInf(a) == a = Inf \/ a = NInf

Abs(x) == IF x < 0 THEN -x ELSE x
Sgn(x) == IF x < 0 THEN -1 ELSE IF x > 0 THEN 1 ELSE 0

RECURSIVE GCD(_, _)
GCD(a, b) == IF b = 0 THEN a ELSE GCD(b, a % b)

\* n/d in lowest terms; a zero denominator gives the special of n's sign.
Norm(n, d) ==
    IF d = 0 THEN <<Sgn(n), 0>>
    ELSE LET g == GCD(Abs(n), Abs(d))
         IN  <<(Sgn(d) * n) \div g, Abs(d) \div g>>

Neg(a) == <<-a[1], a[2]>>

Add(a, b) ==
    IF IsNaN(a) \/ IsNaN(b) THEN NaN
    ELSE IF IsInf(a) THEN (IF IsInf(b) /\ a # b THEN NaN ELSE a)
    ELSE IF IsInf(b) THEN b
    ELSE IF a[2] = b[2] THEN Norm(a[1] + b[1], a[2])
    ELSE LET g == GCD(a[2], b[2])
         IN  Norm(a[1] * (b[2] \div g) + b[1] * (a[2] \div g), (a[2] \div g) * b[2])

Sub(a, b) == Add(a, Neg(b))

\* (the common factors are divided out before the products are formed)
Mul(a, b) ==
    IF IsNaN(a) \/ IsNaN(b) THEN NaN
    ELSE IF ~IsFinite(a) \/ ~IsFinite(b) THEN <<Sgn(a[1]) * Sgn(b[1]), 0>>
    ELSE LET g1 == GCD(Abs(a[1]), b[2])
             g2 == GCD(Abs(b[1]), a[2])
         IN  <<(a[1] \div g1) * (b[1] \div g2), (a[2] \div g2) * (b[2] \div g1)>>

\* 1/0 is +inf, 1/inf is 0 (the sign of a zero is not modelled).
Inv(a) == Norm(a[2], a[1])

Div(a, b) == Mul(a, Inv(b))

\* a < b as numpy compares: every comparison with NaN is False.
Lt(a, b) ==
    /\ ~IsNaN(a)
    /\ ~IsNaN(b)
    /\ a # b
    /\ \/ a = NInf
       \/ b = Inf
       \/ IsFinite(a) /\ IsFinite(b) /\ a[1] * b[2] < b[1] * a[2]

Gt(a, b) == Lt(b, a)
Le(a, b) == ~IsNaN(a) /\ ~IsNaN(b) /\ ~Lt(b, a)

\* x * |x|: the sign-preserving square, by which a value x = num / sqrt(var)
\* is held exactly (the map x -> x|x| is one-to-one and order preserving).
AbsV(a) == <<Abs(a[1]), a[2]>>
SignedSquare(a) == Mul(a, AbsV(a))

-----------------------------------------------------------------------------
(* Vectors (one entry per column) and window matrices (rows of vectors).   *)

\* element-wise operations; the results are held as tuples
VAdd(v, w) == [c \in 1..Len(v) |-> Add(v[c], w[c])] \o <<>>
VSub(v, w) == [c \in 1..Len(v) |-> Sub(v[c], w[c])] \o <<>>
VDiv(v, w) == [c \in 1..Len(v) |-> Div(v[c], w[c])] \o <<>>
Scale(v, k) == [c \in 1..Len(v) |-> Mul(v[c], k)] \o <<>>

First(m) == m[1]
Last(m) == m[Len(m)]
\* m[-k] of a numpy array
FromEnd(m, k) == m[Len(m) + 1 - k]
\* the column c of a matrix: m.T[c]
Col(m, c) == [r \in 1..Len(m) |-> m[r][c]] \o <<>>
NumCols(m) == Len(m[1])

RECURSIVE SumSeq(_)
SumSeq(s) == IF s = <<>> THEN Num(0) ELSE Add(Head(s), SumSeq(Tail(s)))

\* the entries of s that are not NaN, in order
RECURSIVE DropNaN(_)
DropNaN(s) ==
    IF s = <<>> THEN <<>>
    ELSE IF IsNaN(Head(s)) THEN DropNaN(Tail(s))
    ELSE <<Head(s)>> \o DropNaN(Tail(s))

\* np.nanmean: the mean of the non-NaN entries, NaN when there is none
nanmean(s) ==
    LET t == DropNaN(s) IN Div(SumSeq(t), Num(Len(t)))

\* np.nanvar: the population variance of the non-NaN entries
nanvar(s) ==
    LET t == DropNaN(s)
        m == nanmean(s)
        sq == [i \in 1..Len(t) |-> Mul(Sub(t[i], m), Sub(t[i], m))]
    IN  Div(SumSeq(sq), Num(Len(t)))

\* np.roll(col, 1): every entry moves one place later, the last wraps to the front
np_roll(col) ==
    [i \in 1..Len(col) |-> IF i = 1 THEN col[Len(col)] ELSE col[i - 1]]

-----------------------------------------------------------------------------
(* The Panel: what the data provider supplies, one row per trading date.   *)

\* the sids of the cross-section in the engine's column order; 8554 is SPY
assets == <<24, 5061, 8554>>

Row(close, high, low, sales, tot_assets, book_value, sales_yield, fcf_yield) ==
    [close |-> close, high |-> high, low |-> low, sales |-> sales,
     tot_assets |-> tot_assets, book_value |-> book_value,
     sales_yield |-> sales_yield, fcf_yield |-> fcf_yield]

V(a, b, c) == <<Num(a), Num(b), Num(c)>>

\* The rows a date can bring: flat and moving prices, tied and distinct
\* fundamentals, a zero denominator, and an instrument with no data (NaN).
Rows ==
    { Row(V(2, 2, 2), V(3, 3, 3), V(1, 1, 1), V(1, 2, 3), V(4, 4, 2),
          V(1, 2, 3), V(3, 2, 1), V(1, 1, 2)),
      Row(V(3, 2, 4), V(4, 3, 4), V(2, 1, 3), V(2, 2, 1), V(4, 2, 2),
          V(2, 2, 1), V(1, 2, 3), V(3, 1, 2)),
      Row(V(2, 4, 3), V(3, 4, 4), V(2, 2, 2), V(1, 3, 2), V(2, 0, 4),
          V(3, 1, 2), V(2, 2, 2), V(2, 3, 1)),
      Row(<<Num(4), NaN, Num(2)>>, <<Num(4), NaN, Num(3)>>, <<Num(3), NaN, Num(1)>>,
          <<Num(3), NaN, Num(1)>>, <<Num(2), NaN, Num(4)>>,
          <<Num(1), NaN, Num(1)>>, <<Num(2), NaN, Num(3)>>, <<NaN, NaN, Num(1)>>),
      Row(<<Num(1), NaN, Num(4)>>, <<Num(2), NaN, Num(4)>>, <<Num(1), NaN, Num(2)>>,
          <<Num(2), NaN, Num(2)>>, <<Num(4), NaN, Num(2)>>,
          <<Num(2), NaN, Num(3)>>, <<Num(1), NaN, Num(1)>>, <<Num(2), NaN, Num(3)>>) }

\* the number of trading dates a behaviour covers
MaxDates == 4

\* The trailing window lengths, scaled down from the trading-day counts of
\* the source: window_length stands for the 252 days of the annual
\* lookbacks, month for the 21 days of a month.
window_length == 3
month == 2
\* the window of the technical indicators (60 and 30 days in the source)
tech_window == 4

\* get_window(field, instruments, length, as_of_date): the last `length`
\* rows of the field up to and including the date D, oldest first.
get_window(p, field, length, D) ==
    [r \in 1..length |-> p[D - length + r][field]] \o <<>>

\* the dates of the rows of that window
window_dates(length, D) == {D - length + r : r \in 1..length}

\* what a factor yields when the history is shorter than its window
DataUnavailable == <<>>

-----------------------------------------------------------------------------
(* Library primitives the factors call.                                    *)

\* the plain mean and np.cov(x, y) (sample covariance, NaN propagates)
mean(s) == Div(SumSeq(s), Num(Len(s)))

np_cov(x, y) ==
    LET mx == mean(x)
        my == mean(y)
        n1 == Num(Len(x) - 1)
        xy == [i \in 1..Len(x) |-> Mul(Sub(x[i], mx), Sub(y[i], my))] \o <<>>
        yy == [i \in 1..Len(y) |-> Mul(Sub(y[i], my), Sub(y[i], my))] \o <<>>
    IN  [c01 |-> Div(SumSeq(xy), n1), c11 |-> Div(SumSeq(yy), n1)]

pandas_rank_first(v) ==
    [c \in 1..Len(v) |->
        IF IsNaN(v[c]) THEN NaN
        ELSE Num(1 + Cardinality({j \in 1..Len(v) :
                     /\ ~IsNaN(v[j])
                     /\ Lt(v[j], v[c]) \/ (v[j] = v[c] /\ j < c)}))]

\* pandas rank(), method 'average': 1 + the number of smaller values, tied
\* values sharing the mean of the places they take; NaN stays NaN.
pandas_rank(v) ==
    [c \in 1..Len(v) |->
        IF IsNaN(v[c]) THEN NaN
        ELSE LET less == Cardinality({j \in 1..Len(v) : Lt(v[j], v[c])})
                 same == Cardinality({j \in 1..Len(v) : v[j] = v[c]})
             IN  Norm(2 * less + same + 1, 2)] \o <<>>

\* the first index of s at or after i whose entry is not NaN, 0 if none
RECURSIVE FirstValid(_, _)
FirstValid(s, i) ==
    IF i > Len(s) THEN 0
    ELSE IF ~IsNaN(s[i]) THEN i
    ELSE FirstValid(s, i + 1)

\* The exponential moving average as TA-Lib computes it: seeded with the
\* simple mean of the first `period` entries, then
\* ema = (x - ema) * 2/(period + 1) + ema; one entry from index `period` on.
RECURSIVE EMAFrom(_, _, _, _)
EMAFrom(s, i, prev, k) ==
    IF i > Len(s) THEN <<>>
    ELSE LET e == Add(Mul(Sub(s[i], prev), k), prev)
         IN  <<e>> \o EMAFrom(s, i + 1, e, k)

EMA(s, period) ==
    IF Len(s) < period THEN <<>>
    ELSE LET seed == mean(SubSeq(s, 1, period))
         IN  <<seed>> \o EMAFrom(s, period + 1, seed, Norm(2, period + 1))

\* the simple moving average: one entry from index `period` on
SMA(s, period) ==
    [i \in 1..(IF Len(s) < period THEN 0 ELSE Len(s) - period + 1) |->
        mean(SubSeq(s, i, i + period - 1))] \o <<>>

\* The periods of the indicators, scaled down with the windows: the
\* source's 12/26/10 (MACD) and 5/3/3 (STOCH).
MACD_periods == [fastperiod |-> 1, slowperiod |-> 2, signalperiod |-> 2]
STOCH_periods == [fastk_period |-> 2, slowk_period |-> 2, slowd_period |-> 2]

\* talib.MACD(col, fastperiod, slowperiod, signalperiod): raises when the
\* input is all NaN; otherwise the signal line, computed from the first
\* valid entry on and NaN where the history does not reach.
talib_MACD(col, fastperiod, slowperiod, signalperiod) ==
    LET beg == FirstValid(col, 1)
        x == SubSeq(col, beg, Len(col))
        slow == EMA(x, slowperiod)
        fast == EMA(SubSeq(x, slowperiod - fastperiod + 1, Len(x)), fastperiod)
        macd == VSub(fast, slow)
        sig == EMA(macd, signalperiod)
        pad == Len(col) - Len(sig)
    IN  IF beg = 0 THEN [raised |-> TRUE, signal_line |-> <<>>]
        ELSE [raised |-> FALSE,
              signal_line |-> [i \in 1..Len(col) |->
                                  IF i <= pad THEN NaN ELSE sig[i - pad]]]

\* the smallest and the largest entry; NaN if any entry is NaN
MinOf(s) ==
    IF \E i \in 1..Len(s) : IsNaN(s[i]) THEN NaN
    ELSE s[CHOOSE i \in 1..Len(s) : \A j \in 1..Len(s) : ~Lt(s[j], s[i])]

MaxOf(s) ==
    IF \E i \in 1..Len(s) : IsNaN(s[i]) THEN NaN
    ELSE s[CHOOSE i \in 1..Len(s) : \A j \in 1..Len(s) : ~Lt(s[i], s[j])]

\* talib.STOCH(high, low, close, ...) with simple averages: raises when no
\* row has all three inputs; fast %K is 100 (close - low_k) / (high_k - low_k)
\* over the last fastk_period rows (0 when the range is empty), slow %K and
\* slow %D its successive simple means.
talib_STOCH(high, low, close, fastk_period, slowk_period, slowd_period) ==
    LET all3 == [i \in 1..Len(close) |->
                    IF IsNaN(high[i]) \/ IsNaN(low[i]) THEN NaN ELSE close[i]] \o <<>>
        beg == FirstValid(all3, 1)
        n == Len(close) - beg + 1
        h == SubSeq(high, beg, Len(close))
        l == SubSeq(low, beg, Len(close))
        c == SubSeq(close, beg, Len(close))
        fastk == [i \in 1..(IF n < fastk_period THEN 0 ELSE n - fastk_period + 1) |->
                    LET hi == MaxOf(SubSeq(h, i, i + fastk_period - 1))
                        lo == MinOf(SubSeq(l, i, i + fastk_period - 1))
                        t == i + fastk_period - 1
                    IN  IF hi = lo THEN Num(0)
                        ELSE Div(Mul(Num(100), Sub(c[t], lo)), Sub(hi, lo))] \o <<>>
        slowk == SMA(fastk, slowk_period)
        slowd == SMA(slowk, slowd_period)
        pad == Len(close) - Len(slowd)
    IN  IF beg = 0 THEN [raised |-> TRUE, slowd |-> <<>>]
        ELSE [raised |-> FALSE,
              slowd |-> [i \in 1..Len(close) |->
                            IF i <= pad THEN NaN ELSE slowd[i - pad]]]

-----------------------------------------------------------------------------
(* Factors.  F_compute is the compute method on the windows it is given;   *)
(* F(a, p, D) is the factor evaluated by the engine for the assets a on    *)
(* the Panel p for date D, with the inputs and window_length the class     *)
(* declares.                                                               *)

\* (close[-1] - close[0]) / close[0]
Price_Momentum_12M_compute(close) ==
    VDiv(VSub(Last(close), First(close)), First(close))

Price_Momentum_12M_latest(a, p, D) ==
    IF D < window_length THEN DataUnavailable
    ELSE Price_Momentum_12M_compute(get_window(p, "close", window_length, Len(p)))

Price_Momentum_12M(a, p, D) ==
    IF D < window_length THEN DataUnavailable
    ELSE Price_Momentum_12M_compute(get_window(p, "close", window_length, D))

Asset_Turnover_compute(sales, tot_assets) ==
    VDiv(Scale(Last(sales), Num(4)),
         Scale(VAdd(Last(tot_assets), First(tot_assets)), <<1, 2>>))

Asset_Turnover(a, p, D) ==
    IF D < window_length THEN DataUnavailable
    ELSE Asset_Turnover_compute(get_window(p, "sales", window_length, D),
                                get_window(p, "tot_assets", window_length, D))

col_returns_wrapped(col) ==
    VDiv(VSub(col, np_roll(col)), np_roll(col))

\* ((col - np.roll(col, 1)) / np.roll(col, 1))[1:]
col_returns(col) ==
    Tail(VDiv(VSub(col, np_roll(col)), np_roll(col)))

benchmark_index_last(a) == Len(a)

\* np.where((assets == 8554) == True)[0][0]
benchmark_index(a) ==
    CHOOSE c \in 1..Len(a) : a[c] = 8554 /\ \A b \in 1..(c - 1) : a[b] # 8554

Index_Beta_compute(a, close) ==
    LET benchmark_close == Col(close, benchmark_index(a))
        benchmark_returns == col_returns(benchmark_close)
    IN  [c \in 1..NumCols(close) |->
            LET col_cov == np_cov(col_returns(Col(close, c)), benchmark_returns)
            IN  Div(col_cov.c01, col_cov.c11)] \o <<>>

Index_Beta(a, p, D) ==
    IF D < window_length THEN DataUnavailable
    ELSE Index_Beta_compute(a, get_window(p, "close", window_length, D))

\* Z99 catalog.  The mean and the deviation are taken over the vector of
\* the instruments' values, the quotient is held as its signed square.
Mean_Reversion_1M_compute(close) ==
    LET ret_1M == VDiv(VSub(Last(close), FromEnd(close, month)),
                       FromEnd(close, month))
        ret_1Y_monthly == Scale(VDiv(VSub(Last(close), First(close)),
                                     First(close)), <<1, 12>>)
        mu == nanmean(ret_1Y_monthly)
        var == nanvar(ret_1Y_monthly)
    IN  [c \in 1..Len(ret_1M) |-> Div(SignedSquare(Sub(ret_1M[c], mu)), var)] \o <<>>

Mean_Reversion_1M(a, p, D) ==
    IF D < window_length THEN DataUnavailable
    ELSE Mean_Reversion_1M_compute(get_window(p, "close", window_length, D))

\* the strategy's Value factor: the mean over the three yields of each
\* instrument's rank in the cross-section (mean(axis=1) skips NaN)
Value_compute(a, book_value, sales, fcf) ==
    LET rb == pandas_rank(Last(book_value))
        rs == pandas_rank(Last(sales))
        rf == pandas_rank(Last(fcf))
    IN  [c \in 1..Len(a) |-> nanmean(<<rb[c], rs[c], rf[c]>>)] \o <<>>

Value(a, p, D) ==
    Value_compute(a, get_window(p, "book_value", 1, D),
                  get_window(p, "sales_yield", 1, D),
                  get_window(p, "fcf_yield", 1, D))

\* the loop over close.T with its try/except: one entry per column
RECURSIVE MACD_sig_lines(_, _)
MACD_sig_lines(close, c) ==
    IF c > NumCols(close) THEN <<>>
    ELSE LET r == talib_MACD(Col(close, c), MACD_periods.fastperiod,
                             MACD_periods.slowperiod, MACD_periods.signalperiod)
         IN  (IF r.raised THEN <<NaN>> ELSE <<Last(r.signal_line)>>)
             \o MACD_sig_lines(close, c + 1)

RECURSIVE MACD_sig_lines_skip(_, _)
MACD_sig_lines_skip(close, c) ==
    IF c > NumCols(close) THEN <<>>
    ELSE LET r == talib_MACD(Col(close, c), MACD_periods.fastperiod,
                             MACD_periods.slowperiod, MACD_periods.signalperiod)
         IN  (IF r.raised THEN <<>> ELSE <<Last(r.signal_line)>>)
             \o MACD_sig_lines_skip(close, c + 1)

MACD_Signal_10d_compute_skip(close) == MACD_sig_lines_skip(close, 1)

MACD_Signal_10d_compute(close) == MACD_sig_lines(close, 1)

MACD_Signal_10d(a, p, D) ==
    IF D < tech_window THEN DataUnavailable
    ELSE MACD_Signal_10d_compute(get_window(p, "close", tech_window, D))

RECURSIVE STOCH_stoch_list(_, _, _, _)
STOCH_stoch_list(close, high, low, c) ==
    IF c > NumCols(close) THEN <<>>
    ELSE LET r == talib_STOCH(Col(high, c), Col(low, c), Col(close, c),
                              STOCH_periods.fastk_period, STOCH_periods.slowk_period,
                              STOCH_periods.slowd_period)
         IN  (IF r.raised THEN <<NaN>> ELSE <<Last(r.slowd)>>)
             \o STOCH_stoch_list(close, high, low, c + 1)

Stochastic_Oscillator_compute(close, high, low) == STOCH_stoch_list(close, high, low, 1)

Stochastic_Oscillator(a, p, D) ==
    IF D < tech_window THEN DataUnavailable
    ELSE Stochastic_Oscillator_compute(get_window(p, "close", tech_window, D),
                                       get_window(p, "high", tech_window, D),
                                       get_window(p, "low", tech_window, D))

\* the factors of the table, by name, for the assets a
FactorTableFor(a, p, D) ==
    [Price_Momentum_12M |-> Price_Momentum_12M(a, p, D),
     Asset_Turnover |-> Asset_Turnover(a, p, D),
     Index_Beta |-> Index_Beta(a, p, D),
     Mean_Reversion_1M |-> Mean_Reversion_1M(a, p, D),
     Value |-> Value(a, p, D),
     MACD_Signal_10d |-> MACD_Signal_10d(a, p, D),
     Stochastic_Oscillator |-> Stochastic_Oscillator(a, p, D)]

FactorTable(p, D) == FactorTableFor(assets, p, D)

-----------------------------------------------------------------------------
(* The pipeline engine, one date at a time.                                *)

\* A trading date ends: its row joins the Panel and the engine evaluates
\* every factor for that date, appending the values to the results table.
RunPipelineDay(row) ==
    /\ algo = "factors"
    /\ Len(panel) < MaxDates
    /\ LET p == Append(panel, row)
       IN  /\ panel' = p
           /\ results' = Append(results, FactorTable(p, Len(p)))
    /\ UNCHANGED <<algo, registry_vars, schedule_vars, strategy_vars>>

NextFactors == \E row \in Rows : RunPipelineDay(row)

-----------------------------------------------------------------------------
(* The factor catalogs (AlphasLibIndex, Z99-AlphasLibIndex): the price,    *)
(* volume and fundamental factors, evaluated date by date on a Panel of    *)
(* close, volume, ebit and tot_assets.                                     *)

CatalogRow(close, volume, ebit, tot_assets) ==
    [close |-> close, volume |-> volume, ebit |-> ebit, tot_assets |-> tot_assets]

\* The rows a date can bring: a quiet date, a date of moving prices with a
\* zero and a negative fundamental, and a date on which data is missing.
CatalogRows ==
    { CatalogRow(V(2, 2, 2), V(1, 2, 1), V(50, 1, 0), V(2000, 4, 2)),
      CatalogRow(V(3, 1, 4), V(2, 1, 3), V(1, -2, 2), V(4, 0, 2)),
      CatalogRow(<<Num(1), NaN, Num(3)>>, <<Num(1), NaN, Num(2)>>,
                 <<NaN, Num(1), Num(2)>>, <<Num(2), NaN, Num(0)>>) }

\* the number of trading dates a behaviour of the catalog covers
CatalogDates == 6

\* window_length of Moneyflow_Volume_5d
Moneyflow_window == 5

\* The window lengths of the price momentum factors, scaled down from 21,
\* 63, 126, 215 and 252 trading days.
w_1M == 2
w_3M == 3
w_6M == 4
w_39W == 5
w_12M == 6
\* the window of Vol_3M (63 days of returns) and the trailing part of the
\* Price_Oscillator window (close[-20:])
vol_window == 2
four_weeks == 2

\* np.dot(col_c, col_v)
np_dot(x, y) == SumSeq([i \in 1..Len(x) |-> Mul(x[i], y[i])])

\* col_c[n - 1] for n = 0 .. len - 1: numpy's index -1 is the last entry
prior_in_window(col_c, i) == IF i = 1 THEN col_c[Len(col_c)] ELSE col_c[i - 1]

\* the loop over enumerate(col_c.tolist()): price * volume added when the
\* price is greater than col_c[n - 1], subtracted otherwise
RECURSIVE Moneyflow_numerator(_, _, _)
Moneyflow_numerator(col_c, col_v, i) ==
    IF i = 0 THEN Num(0)
    ELSE LET before == Moneyflow_numerator(col_c, col_v, i - 1)
             flow == Mul(col_c[i], col_v[i])
         IN  IF Gt(col_c[i], prior_in_window(col_c, i))
             THEN Add(before, flow) ELSE Sub(before, flow)

Moneyflow_Volume_5d_compute(close, volume) ==
    [c \in 1..NumCols(close) |->
        LET col_c == Col(close, c)
            col_v == Col(volume, c)
        IN  Div(Moneyflow_numerator(col_c, col_v, Len(col_c)),
                np_dot(col_c, col_v))] \o <<>>

Moneyflow_Volume_5d(p, D) ==
    IF D < Moneyflow_window THEN DataUnavailable
    ELSE Moneyflow_Volume_5d_compute(get_window(p, "close", Moneyflow_window, D),
                                     get_window(p, "volume", Moneyflow_window, D))

\* Price_Momentum_1M, _3M, _6M and Returns_39W: (close[-1] - close[0]) / close[0]
Price_Momentum_1M_compute(close) ==
    VDiv(VSub(Last(close), First(close)), First(close))

Price_Momentum_3M_interior(close) ==
    VDiv(VSub(Last(close), close[2]), close[2])

Price_Momentum_3M_compute(close) ==
    VDiv(VSub(Last(close), First(close)), First(close))

Price_Momentum_6M_compute(close) ==
    VDiv(VSub(Last(close), First(close)), First(close))

Returns_39W_compute(close) ==
    VDiv(VSub(Last(close), First(close)), First(close))

\* the five rate-of-change factors on the Panel, each with its window
Price_Momentum(p, D) ==
    [N \in {w_1M, w_3M, w_6M, w_39W, w_12M} |->
        IF D < N THEN DataUnavailable
        ELSE LET close == get_window(p, "close", N, D)
             IN  CASE N = w_1M -> Price_Momentum_1M_compute(close)
                   [] N = w_3M -> Price_Momentum_3M_compute(close)
                   [] N = w_6M -> Price_Momentum_6M_compute(close)
                   [] N = w_39W -> Returns_39W_compute(close)
                   [] N = w_12M -> Price_Momentum_12M_compute(close)]

\* AlphasLibIndex: (is_.ebit.latest * 4.) / bs.total_assets.latest
EBIT_To_Assets_unannualised(ebit, tot_assets) == VDiv(ebit, tot_assets)

EBIT_To_Assets_latest(ebit, tot_assets) ==
    VDiv(Scale(ebit, Num(4)), tot_assets)

\* Z99: (ebit[-1] * 4) / tot_assets[-1]
EBIT_To_Assets_compute(ebit, tot_assets) ==
    VDiv(Scale(Last(ebit), Num(4)), Last(tot_assets))

\* the two catalogs' EBIT_To_Assets for the date D
EBIT_To_Assets(p, D) ==
    [latest |-> EBIT_To_Assets_latest(p[D].ebit, p[D].tot_assets),
     custom |-> EBIT_To_Assets_compute(get_window(p, "ebit", 1, D),
                                       get_window(p, "tot_assets", 1, D))]

\* Returns(window_length=2) for the date d: (close[-1] - close[0]) / close[0]
Returns(p, d) == VDiv(VSub(p[d].close, p[d - 1].close), p[d - 1].close)

\* the last `length` rows of Returns up to the date D
returns_window(p, length, D) ==
    [r \in 1..length |-> Returns(p, D - length + r)] \o <<>>

\* np.nanstd, held as its square: the population variance (ddof = 0) of the
\* entries that are not NaN, NaN when there is none
np_nanstd_squared(s) == nanvar(s)

\* np.nanstd(rets, axis=0)
Vol_3M_compute(rets) ==
    [c \in 1..NumCols(rets) |-> np_nanstd_squared(Col(rets, c))] \o <<>>

Vol_3M(p, D) ==
    IF D < vol_window + 1 THEN DataUnavailable
    ELSE Vol_3M_compute(returns_window(p, vol_window, D))

\* np.where(rets < 0, rets, np.nan), then np.nanstd(down_rets, axis=0)
down_rets(col) ==
    [i \in 1..Len(col) |-> IF Lt(col[i], Num(0)) THEN col[i] ELSE NaN]

Downside_Risk_compute(rets) ==
    [c \in 1..NumCols(rets) |-> np_nanstd_squared(down_rets(Col(rets, c)))] \o <<>>

Downside_Risk(p, D) ==
    IF D < window_length + 1 THEN DataUnavailable
    ELSE Downside_Risk_compute(returns_window(p, window_length, D))

\* (np.nanmean(close[-20:], axis=0) / np.nanmean(close, axis=0)) - 1.
Price_Oscillator_compute(close) ==
    [c \in 1..NumCols(close) |->
        Sub(Div(nanmean(SubSeq(Col(close, c), Len(close) - four_weeks + 1, Len(close))),
                nanmean(Col(close, c))),
            Num(1))] \o <<>>

Price_Oscillator(p, D) ==
    IF D < window_length THEN DataUnavailable
    ELSE Price_Oscillator_compute(get_window(p, "close", window_length, D))

\* range(self.window_length): the day index 0 .. window_length - 1
days(length) == [i \in 1..length |-> Num(i - 1)]

\* AlphasLibIndex: sum((x - x_bar) * (y - y_bar)) / nanvar(x) / window_length
Trendline_vectorised_undivided(close) ==
    LET X == days(Len(close))
    IN  [c \in 1..NumCols(close) |->
            LET col == Col(close, c)
            IN  Div(SumSeq([i \in 1..Len(col) |->
                               Mul(Sub(X[i], nanmean(X)), Sub(col[i], nanmean(col)))]),
                    nanvar(X))] \o <<>>

Trendline_vectorised(close) ==
    LET X == days(Len(close))
        X_bar == nanmean(X)
        X_var == nanvar(X)
    IN  [c \in 1..NumCols(close) |->
            LET col == Col(close, c)
                Y_bar == nanmean(col)
                products == [i \in 1..Len(col) |->
                                Mul(Sub(X[i], X_bar), Sub(col[i], Y_bar))]
            IN  Div(Div(SumSeq(products), X_var), Num(Len(close)))] \o <<>>

\* Z99: col_cov = np.cov(col, days); col_cov[0, 1] / col_cov[1, 1]
Trendline_compute(close) ==
    [c \in 1..NumCols(close) |->
        LET col_cov == np_cov(Col(close, c), days(Len(close)))
        IN  Div(col_cov.c01, col_cov.c11)] \o <<>>

\* the two catalogs' Trendline for the date D
Trendline(p, D) ==
    IF D < window_length THEN [vectorised |-> DataUnavailable, custom |-> DataUnavailable]
    ELSE LET close == get_window(p, "close", window_length, D)
         IN  [vectorised |-> Trendline_vectorised(close),
              custom |-> Trendline_compute(close)]

\* the factors of the catalog for the date D of the Panel p
CatalogTable(p, D) ==
    [Moneyflow_Volume_5d |-> Moneyflow_Volume_5d(p, D),
     Price_Momentum |-> Price_Momentum(p, D),
     EBIT_To_Assets |-> EBIT_To_Assets(p, D),
     Vol_3M |-> Vol_3M(p, D),
     Downside_Risk |-> Downside_Risk(p, D),
     Price_Oscillator |-> Price_Oscillator(p, D),
     Trendline |-> Trendline(p, D)]

\* A trading date ends: its row joins the Panel and the engine evaluates
\* the catalog's factors for that date.
RunCatalogDay(row) ==
    /\ algo = "catalog"
    /\ Len(panel) < CatalogDates
    /\ LET p == Append(panel, row)
       IN  /\ panel' = p
           /\ results' = Append(results, CatalogTable(p, Len(p)))
    /\ UNCHANGED <<algo, registry_vars, schedule_vars, strategy_vars>>

NextCatalog == \E row \in CatalogRows : RunCatalogDay(row)

-----------------------------------------------------------------------------
(* The catalogs' registries.  Executing a catalog binds each factor that   *)
(* it defines, in the order of the file, and then builds the mapping from  *)
(* names to factors entry by entry.                                        *)

\* the def and class statements of make_factors, in order
make_factors_definitions ==
    << "Price_To_Sales", "Price_To_Earnings", "Price_To_Diluted_Earnings",
       "Price_To_Forward_Earnings", "Dividend_Yield",
       "Price_To_Free_Cashflows", "Price_To_Operating_Cashflows",
       "Price_To_Book", "Cashflows_To_Assets", "EV_To_Cashflows",
       "EV_To_EBITDA", "EBITDA_Yield", "Market_Cap", "Log_Market_Cap",
       "Log_Market_Cap_Cubed", "Price_Oscillator", "Trendline",
       "Price_Momentum_1M", "Price_Momentum_3M", "Price_Momentum_6M",
       "Price_Momentum_12M", "Returns_39W", "Mean_Reversion_1M",
       "Capex_To_Assets", "EV_To_Sales_SalesGrowth", "Capex_To_Sales",
       "Capex_To_Cashflows", "EBIT_To_Assets",
       "Operating_Cashflows_To_Assets", "Retained_Earnings_To_Assets",
       "Downside_Risk", "SPY_Beta", "Vol_3M", "Sales_Growth_3M",
       "Sales_Growth_12M", "EPS_Growth_12M", "Asset_Turnover",
       "Asset_Growth_3M", "Current_Ratio", "Asset_To_Equity_Ratio",
       "Interest_Coverage", "Debt_To_Asset_Ratio", "Debt_To_Equity_Ratio",
       "Net_Debt_Growth_3M", "Working_Capital_To_Assets",
       "Working_Capital_To_Sales", "Earnings_Quality", "Dividend_Growth",
       "Dividend_Payout_Ratio", "Gross_Income_Margin", "Net_Income_Margin",
       "Return_On_Total_Equity", "Return_On_Total_Assets",
       "Return_On_Total_Invest_Capital", "MACD_Signal_10d",
       "Stochastic_Oscillator", "Moneyflow_Volume_5d" >>

\* the entries of the all_factors dictionary: <<name, factor>>
make_factors_entries ==
    << <<"Asset Growth 3M", "Asset_Growth_3M">>,
       <<"EV_To_Sales_SalesGrowth", "EV_To_Sales_SalesGrowth">>,
       <<"Asset to Equity Ratio", "Asset_To_Equity_Ratio">>,
       <<"Asset Turnover", "Asset_Turnover">>,
       <<"Capex to Assets", "Capex_To_Assets">>,
       <<"Capex to Cashflows", "Capex_To_Cashflows">>,
       <<"Capex to Sales", "Capex_To_Sales">>,
       <<"Cashflows to Assets", "Cashflows_To_Assets">>,
       <<"Current Ratio", "Current_Ratio">>,
       <<"Debt to Asset Ratio", "Debt_To_Asset_Ratio">>,
       <<"Dividend Growth", "Dividend_Growth">>,
       <<"Dividend Payout Ratio", "Dividend_Payout_Ratio">>,
       <<"Dividend Yield", "Dividend_Yield">>,
       <<"EBITDA Yield", "EBITDA_Yield">>,
       <<"EBIT to Assets", "EBIT_To_Assets">>,
       <<"Earnings Quality", "Earnings_Quality">>,
       <<"EV to Cashflows", "EV_To_Cashflows">>,
       <<"EV to EBITDA", "EV_To_EBITDA">>,
       <<"Gross Income Margin", "Gross_Income_Margin">>,
       <<"Interest Coverage", "Interest_Coverage">>,
       <<"MACD Signal Line", "MACD_Signal_10d">>,
       <<"Market Cap", "Market_Cap">>,
       <<"Mean Reversion 1M", "Mean_Reversion_1M">>,
       <<"Moneyflow Volume 5D", "Moneyflow_Volume_5d">>,
       <<"Net Debt Growth 3M", "Net_Debt_Growth_3M">>,
       <<"Net Income Margin", "Net_Income_Margin">>,
       <<"Operating Cashflows to Assets", "Operating_Cashflows_To_Assets">>,
       <<"Price Momentum 12M", "Price_Momentum_12M">>,
       <<"Price Momentum 1M", "Price_Momentum_1M">>,
       <<"Price Momentum 3M", "Price_Momentum_3M">>,
       <<"Price Momentum 6M", "Price_Momentum_6M">>,
       <<"Price Oscillator", "Price_Oscillator">>,
       <<"Price to Book", "Price_To_Book">>,
       <<"Price to Diluted Earnings", "Price_To_Diluted_Earnings">>,
       <<"Price to Earnings", "Price_To_Earnings">>,
       <<"Price to Forward Earnings", "Price_To_Forward_Earnings">>,
       <<"Price to Free Cashflows", "Price_To_Free_Cashflows">>,
       <<"Price to Operating Cashflows", "Price_To_Operating_Cashflows">>,
       <<"Price to Sales", "Price_To_Sales">>,
       <<"Retained Earnings to Assets", "Retained_Earnings_To_Assets">>,
       <<"Return on Total Assets", "Return_On_Total_Assets">>,
       <<"Return on Total Equity", "Return_On_Total_Equity">>,
       <<"Return on Invest Capital", "Return_On_Total_Invest_Capital">>,
       <<"39 Week Returns", "Returns_39W">>,
       <<"Stochastic Oscillator", "Stochastic_Oscillator">>,
       <<"Trendline", "Trendline">>, <<"Vol 3M", "Vol_3M">>,
       <<"Working Capital to Assets", "Working_Capital_To_Assets">>,
       <<"Working Capital to Sales", "Working_Capital_To_Sales">> >>

\* the classes of the class Factors, in order
Factors_definitions ==
    << "Price_To_Sales", "Price_To_Earnings", "Price_To_Diluted_Earnings",
       "Price_To_Forward_Earnings", "Dividend_Yield",
       "Price_To_Free_Cashflows", "Price_To_Operating_Cashflows",
       "Price_To_Book", "Cashflows_To_Assets", "EV_To_Cashflows",
       "EV_To_EBITDA", "EBITDA_Yield", "Percent_Above_Low",
       "Percent_Below_High", "Price_Oscillator", "Trendline",
       "Price_Momentum_1M", "Price_Momentum_3M", "Price_Momentum_6M",
       "Price_Momentum_12M", "Returns_39W", "Mean_Reversion_1M",
       "Capex_To_Assets", "Capex_To_Sales", "Capex_To_Cashflows",
       "EBIT_To_Assets", "Operating_Cashflows_To_Assets",
       "Retained_Earnings_To_Assets", "Market_Cap", "Log_Market_Cap",
       "Log_Market_Cap_Cubed", "Downside_Risk", "Index_Beta",
       "Downside_Beta", "Vol_3M", "Sales_Growth_3M", "Sales_Growth_12M",
       "EPS_Growth_12M", "Asset_Turnover", "Asset_Growth_3M",
       "Current_Ratio", "Asset_To_Equity_Ratio", "Interest_Coverage",
       "Debt_To_Asset_Ratio", "Debt_To_Equity_Ratio", "Net_Debt_Growth_3M",
       "Working_Capital_To_Assets", "Working_Capital_To_Sales",
       "Dividend_Growth", "Dividend_Payout_Ratio", "Gross_Income_Margin",
       "Net_Income_Margin", "Return_On_Total_Equity",
       "Return_On_Total_Assets", "Return_On_Total_Invest_Capital",
       "MACD_Signal_10d", "Stochastic_Oscillator", "Moneyflow_Volume_5d",
       "Mertons_DD" >>

\* the entries of the FACTORS dictionary: <<name, factor>>
FACTORS_entries ==
    << <<"Asset Growth 3M", "Asset_Growth_3M">>,
       <<"Asset to Equity Ratio", "Asset_To_Equity_Ratio">>,
       <<"Asset Turnover", "Asset_Turnover">>,
       <<"Capex to Assets", "Capex_To_Assets">>,
       <<"Capex to Cashflows", "Capex_To_Cashflows">>,
       <<"Capex to Sales", "Capex_To_Sales">>,
       <<"Cashflows to Assets", "Cashflows_To_Assets">>,
       <<"Current Ratio", "Current_Ratio">>,
       <<"Debt to Asset Ratio", "Debt_To_Asset_Ratio">>,
       <<"Dividend Growth", "Dividend_Growth">>,
       <<"Dividend Payout Ratio", "Dividend_Payout_Ratio">>,
       <<"Dividend Yield", "Dividend_Yield">>,
       <<"Downside Beta", "Downside_Beta">>,
       <<"Downside Risk", "Downside_Risk">>,
       <<"EBITDA Yield", "EBITDA_Yield">>,
       <<"EBIT to Assets", "EBIT_To_Assets">>,
       <<"EPS Growth 12M", "EPS_Growth_12M">>,
       <<"EV to Cashflows", "EV_To_Cashflows">>,
       <<"EV to EBITDA", "EV_To_EBITDA">>,
       <<"Gross Income Margin", "Gross_Income_Margin">>,
       <<"Index Beta", "Index_Beta">>,
       <<"Interest Coverage", "Interest_Coverage">>,
       <<"Log Market Cap", "Log_Market_Cap">>,
       <<"Log Market Cap Cubed", "Log_Market_Cap_Cubed">>,
       <<"MACD Signal Line", "MACD_Signal_10d">>,
       <<"Market Cap", "Market_Cap">>,
       <<"Mean Reversion 1M", "Mean_Reversion_1M">>,
       <<"Mertons Distance to Default", "Mertons_DD">>,
       <<"Moneyflow Volume 5D", "Moneyflow_Volume_5d">>,
       <<"Net Debt Growth 3M", "Net_Debt_Growth_3M">>,
       <<"Net Income Margin", "Net_Income_Margin">>,
       <<"Operating Cashflows to Assets", "Operating_Cashflows_To_Assets">>,
       <<"Percent Above Low", "Percent_Above_Low">>,
       <<"Percent Below High", "Percent_Below_High">>,
       <<"Price Momentum 12M", "Price_Momentum_12M">>,
       <<"Price Momentum 1M", "Price_Momentum_1M">>,
       <<"Price Momentum 3M", "Price_Momentum_3M">>,
       <<"Price Momentum 6M", "Price_Momentum_6M">>,
       <<"Price Oscillator", "Price_Oscillator">>,
       <<"Price to Book", "Price_To_Book">>,
       <<"Price to Diluted Earnings", "Price_To_Diluted_Earnings">>,
       <<"Price to Earnings", "Price_To_Earnings">>,
       <<"Price to Forward Earnings", "Price_To_Forward_Earnings">>,
       <<"Price to Free Cashflows", "Price_To_Free_Cashflows">>,
       <<"Price to Operating Cashflows", "Price_To_Operating_Cashflows">>,
       <<"Price to Sales", "Price_To_Sales">>,
       <<"Retained Earnings to Assets", "Retained_Earnings_To_Assets">>,
       <<"Return on Total Assets", "Return_On_Total_Assets">>,
       <<"Return on Total Equity", "Return_On_Total_Equity">>,
       <<"Return on Invest Capital", "Return_On_Total_Invest_Capital">>,
       <<"39 Week Returns", "Returns_39W">>,
       <<"Sales Growth 12M", "Sales_Growth_12M">>,
       <<"Sales Growth 3M", "Sales_Growth_3M">>,
       <<"Stochastic Oscillator", "Stochastic_Oscillator">>,
       <<"Trendline", "Trendline">>, <<"Vol 3M", "Vol_3M">>,
       <<"Working Capital to Assets", "Working_Capital_To_Assets">>,
       <<"Working Capital to Sales", "Working_Capital_To_Sales">> >>

definitions_of(a) ==
    IF a = "make_factors" THEN make_factors_definitions ELSE Factors_definitions
entries_of(a) ==
    IF a = "make_factors" THEN make_factors_entries ELSE FACTORS_entries

\* the next def or class statement runs: its name is bound
Define ==
    /\ algo \in {"make_factors", "FACTORS"}
    /\ stmt < Len(definitions_of(algo))
    /\ namespace' = namespace \cup {definitions_of(algo)[stmt + 1]}
    /\ stmt' = stmt + 1
    /\ UNCHANGED <<algo, all_factors, factor_vars, strategy_vars, schedule_vars>>

\* the next entry of the dictionary display is evaluated: the name maps to
\* the factor, replacing an earlier entry of the same name
Register ==
    /\ algo \in {"make_factors", "FACTORS"}
    /\ stmt >= Len(definitions_of(algo))
    /\ stmt < Len(definitions_of(algo)) + Len(entries_of(algo))
    /\ LET entry == entries_of(algo)[stmt - Len(definitions_of(algo)) + 1]
       IN  /\ entry[2] \in namespace
           /\ all_factors' =
                  [n \in DOMAIN all_factors \cup {entry[1]} |->
                      IF n = entry[1] THEN entry[2] ELSE all_factors[n]]
    /\ stmt' = stmt + 1
    /\ UNCHANGED <<algo, namespace, factor_vars, strategy_vars, schedule_vars>>

NextRegistry == Define \/ Register

-----------------------------------------------------------------------------
(* The trading strategies: inputs and the library calls they make.         *)

\* the securities of the strategies' universe in the index order of the
\* pipeline output (ascending sid); 8554 is SPY
securities == <<24, 62, 114, 8554>>
spy == 8554

\* the number of trading dates a behaviour of a strategy covers
MaxDays == 2

\* The basket sizes, scaled down with the universe: head_n stands for the
\* 150 of head(150) / tail(150), list_n for the 50 of iloc[:50] /
\* iloc[-50:], drop_n for the 20 of iloc[:-20].
head_n == 2
list_n == 2
drop_n == 1

\* the values one factor can take over the securities on a date: distinct,
\* tied, missing (NaN), infinite, and not positive
CrossSections ==
    { <<Num(1), Num(2), Num(3), Num(4)>>,
      <<Num(2), Num(2), Num(1), Num(3)>>,
      <<Num(3), NaN, Num(1), Num(2)>>,
      <<Num(1), Inf, Num(2), Num(2)>>,
      <<Num(-1), Num(0), Num(2), Num(1)>> }

\* the values momentum and quality take in the rank-weighted strategy: the
\* same for every security, or distinct
Steady ==
    { <<Num(2), Num(2), Num(2), Num(2)>>,
      <<Num(1), Num(2), Num(3), Num(4)>> }

\* the securities `data` may lack on a date (not tradable)
Untradable == { {}, {24}, {8554} }

Min2(a, b) == IF a < b THEN a ELSE b
Max2(a, b) == IF a > b THEN a ELSE b

\* s.head(n) and s.iloc[:n]; s.tail(n) and s.iloc[-n:]; s.iloc[:-n]
head(s, n) == SubSeq(s, 1, Min2(n, Len(s)))
tail(s, n) == SubSeq(s, Len(s) - Min2(n, Len(s)) + 1, Len(s))
iloc_drop_last(s, n) == SubSeq(s, 1, Max2(Len(s) - n, 0))

Column(table, f) == [i \in 1..Len(table) |-> table[i][f]] \o <<>>
index(table) == [i \in 1..Len(table) |-> table[i].sid]
in_index(x, idx) == \E i \in 1..Len(idx) : idx[i] = x
\* the row of the table for the security x
loc(table, x) == table[CHOOSE i \in 1..Len(table) : table[i].sid = x]

\* Series.order(): ascending, the NaN keys last in index order.  The sort
\* is numpy's quicksort, which leaves the order of equal keys unspecified:
\* every order of the ties is an outcome.
order_outcomes(keys) ==
    {pi \in Permutations(1..Len(keys)) :
        \A i, j \in 1..Len(keys) :
            i < j => /\ ~Lt(keys[pi[j]], keys[pi[i]])
                     /\ IsNaN(keys[pi[i]]) => IsNaN(keys[pi[j]]) /\ pi[i] < pi[j]}

\* DataFrame.sort([key], ascending=False): descending by the key, the rows
\* with a NaN key last in index order
sort_descending(table, key) ==
    LET valid(row) == ~IsNaN(row[key])
        missing(row) == IsNaN(row[key])
        before(r, q) == Gt(r[key], q[key])
    IN  SortSeq(SelectSeq(table, valid), before) \o SelectSeq(table, missing)

\* Factor.rank() of the pipeline (method 'ordinal', ascending): NaN stays
\* NaN, equal values take consecutive places in column order
zipline_rank(v) ==
    [i \in 1..Len(v) |->
        IF IsNaN(v[i]) THEN NaN
        ELSE Num(1 + Cardinality({j \in 1..Len(v) :
                     /\ ~IsNaN(v[j])
                     /\ Lt(v[j], v[i]) \/ (v[j] = v[i] /\ j < i)}))] \o <<>>

\* context.longs = ...: the assignment replaces the basket held before
merge_basket(prior, selected) == prior \o selected

replace_basket(prior, selected) == selected

\* what the order engine does with the orders: a target of zero closes the
\* position, any other target opens or keeps it
RECURSIVE filled(_, _)
filled(held, placed) ==
    IF placed = <<>> THEN held
    ELSE filled(IF Head(placed).target = Num(0) THEN held \ {Head(placed).sid}
                ELSE held \cup {Head(placed).sid},
                Tail(placed))

\* the securities of a set in ascending sid order
held_list(held) ==
    LET holds(x) == x \in held IN SelectSeq(securities, holds)

-----------------------------------------------------------------------------
(* The rank-weighted strategy (Value, Momentum, Quality, Volatility).      *)

factor_columns == <<"value", "momentum", "quality", "volatility">>

\* pipeline_output('factors'): one row per security passing the screen
factors_output(v, m, q, s) ==
    [i \in 1..Len(securities) |->
        [sid |-> securities[i], value |-> v[i], momentum |-> m[i],
         quality |-> q[i], volatility |-> s[i]]]

\* DataFrame.dropna(): the rows with a NaN in any column go, infinities stay
dropna(table) ==
    LET complete(row) ==
            \A c \in 1..Len(factor_columns) : ~IsNaN(row[factor_columns[c]])
    IN  SelectSeq(table, complete)

\* results.rank().mean(axis=1): the mean over the columns of each row's ranks
mean_rank(res) ==
    LET rk == [c \in 1..Len(factor_columns) |->
                  pandas_rank(Column(res, factor_columns[c]))] \o <<>>
    IN  [i \in 1..Len(res) |->
            nanmean([c \in 1..Len(factor_columns) |-> rk[c][i]])] \o <<>>

unnormalised(series) == series

\* series /= series.sum()
normalised(series) ==
    LET total == SumSeq(Column(series, "weight"))
    IN  [i \in 1..Len(series) |->
            [sid |-> series[i].sid, weight |-> Div(series[i].weight, total)]]

\* the baskets before_trading_start computes when order() sorts by pi
rw_baskets(out, pi) ==
    LET res == dropna(out)
        mr == mean_rank(res)
        ranks == [i \in 1..Len(res) |->
                     [sid |-> res[pi[i]].sid, weight |-> mr[pi[i]]]] \o <<>>
        lowest == head(ranks, head_n)
        inverse == [i \in 1..Len(lowest) |->
                       [sid |-> lowest[i].sid, weight |-> Inv(lowest[i].weight)]]
    IN  [shorts |-> normalised(inverse), longs |-> normalised(tail(ranks, head_n))]

rw_outcomes(out) ==
    {rw_baskets(out, pi) : pi \in order_outcomes(mean_rank(dropna(out)))}

rw_before_trading_start(out) ==
    /\ algo = "rank_weighted"
    /\ raised = ""
    /\ day < MaxDays
    /\ \E b \in rw_outcomes(out) :
           /\ shorts' = replace_basket(shorts, b.shorts)
           /\ longs' = replace_basket(longs, b.longs)
    /\ output' = out
    /\ day' = day + 1
    /\ UNCHANGED <<algo, registry_vars, schedule_vars, factor_vars, orders, positions, raised>>

-----------------------------------------------------------------------------
(* The two-factor equal-weight strategy.                                   *)

\* context.long_leverage and context.short_leverage of a strategy
long_leverage(a) == IF a = "lazy" THEN Num(1) ELSE <<1, 2>>
short_leverage(a) == IF a = "lazy" THEN Num(0) ELSE <<-1, 2>>

\* pipeline_output('ranked_2000'): the two factors, their ranks, the sum of
\* the ranks and its rank
ranked_2000_output(f1, f2) ==
    LET r1 == zipline_rank(f1)
        r2 == zipline_rank(f2)
        raw == VAdd(r1, r2)
        cr == zipline_rank(raw)
    IN  [i \in 1..Len(securities) |->
            [sid |-> securities[i], factor_1 |-> f1[i], factor_2 |-> f2[i],
             f1_rank |-> r1[i], f2_rank |-> r2[i],
             combo_raw |-> raw[i], combo_rank |-> cr[i]]]

\* the rows the last filter of before_trading_start keeps, sorted
tf_sorted(out) ==
    LET positive(row) == Gt(row.factor_1, Num(0))
    IN  sort_descending(SelectSeq(out, positive), "combo_rank")

tf_before_trading_start(f1, f2) ==
    /\ algo = "two_factor"
    /\ raised = ""
    /\ day < MaxDays
    /\ LET out == ranked_2000_output(f1, f2)
       IN  /\ output' = out
           /\ shorts' = replace_basket(shorts, index(head(tf_sorted(out), list_n)))
           /\ longs' = replace_basket(longs, index(tail(tf_sorted(out), list_n)))
    /\ day' = day + 1
    /\ UNCHANGED <<algo, registry_vars, schedule_vars, factor_vars, orders, positions, raised>>

long_weight_undivided(leverage, n) == leverage

\* context.long_leverage / float(len(context.long_list))
long_weight(leverage, n) == Div(leverage, Num(n))

short_weight(leverage, n) == Div(leverage, Num(n))

order_target_percent(stock, weight, leg) ==
    [sid |-> stock, target |-> weight, leg |-> leg]

\* one order per security of the list that passes the test, in list order
RECURSIVE orders_for(_, _, _, _)
orders_for(list, skip, weight, leg) ==
    IF list = <<>> THEN <<>>
    ELSE (IF Head(list) \in skip THEN <<>>
          ELSE <<order_target_percent(Head(list), weight, leg)>>)
         \o orders_for(Tail(list), skip, weight, leg)

\* the positions that are not in the first list
not_in_first(a, b) ==
    {x \in positions : ~in_index(x, a)}

\* the positions that are in neither list
not_listed(a, b) ==
    {x \in positions : ~in_index(x, a) /\ ~in_index(x, b)}

tf_rebalance(missing) ==
    /\ algo = "two_factor"
    /\ raised = ""
    /\ day > 0
    /\ orders = <<>>
    /\ IF Len(longs) = 0 \/ Len(shorts) = 0
       THEN /\ raised' = "ZeroDivisionError"
            /\ UNCHANGED orders
       ELSE /\ orders' =
                   orders_for(longs, missing,
                              long_weight(long_leverage(algo), Len(longs)), "long")
                \o orders_for(shorts, missing,
                              Neg(short_weight(short_leverage(algo), Len(shorts))), "short")
                \o orders_for(held_list(not_listed(longs, shorts)), {}, Num(0), "exit")
            /\ UNCHANGED raised
    /\ UNCHANGED <<algo, registry_vars, schedule_vars, factor_vars, day, output, longs, shorts, positions>>

\* the engine fills the orders placed
FillOrders ==
    /\ algo \in {"two_factor", "lazy"}
    /\ orders # <<>>
    /\ positions' = filled(positions, orders)
    /\ orders' = <<>>
    /\ UNCHANGED <<algo, registry_vars, schedule_vars, factor_vars, day, output, longs, shorts, raised>>

-----------------------------------------------------------------------------
(* The price-to-sales strategy.                                            *)

\* pipeline_output('ranked_2000'): the screen keeps price_to_sales > 0
ps_output(ps) ==
    LET rk == zipline_rank(ps)
        all == [i \in 1..Len(securities) |->
                   [sid |-> securities[i], price_to_sales |-> ps[i], ps_rank |-> rk[i]]]
        screen(row) == Gt(row.price_to_sales, Num(0))
    IN  SelectSeq(all, screen)

lazy_before_trading_start(ps) ==
    /\ algo = "lazy"
    /\ raised = ""
    /\ day < MaxDays
    /\ output' = ps_output(ps)
    /\ longs' = replace_basket(longs,
                    index(iloc_drop_last(sort_descending(ps_output(ps), "ps_rank"), drop_n)))
    /\ day' = day + 1
    /\ UNCHANGED <<algo, registry_vars, schedule_vars, factor_vars, shorts, orders, positions, raised>>

lazy_rebalance ==
    /\ algo = "lazy"
    /\ raised = ""
    /\ day > 0
    /\ orders = <<>>
    /\ IF Len(longs) = 0 \/ Len(shorts) = 0
       THEN /\ raised' = "ZeroDivisionError"
            /\ UNCHANGED orders
       ELSE /\ orders' =
                   orders_for(held_list(not_listed(longs, shorts)), {}, Num(0), "exit")
                \o orders_for(longs, {},
                              long_weight(long_leverage(algo), Len(longs)), "long")
                \o orders_for(shorts, {},
                              short_weight(short_leverage(algo), Len(shorts)), "short")
            /\ UNCHANGED raised
    /\ UNCHANGED <<algo, registry_vars, schedule_vars, factor_vars, day, output, longs, shorts, positions>>

-----------------------------------------------------------------------------
(* The five-day mean-reversion strategy.                                   *)

\* context.nq, context.nq_vol and the bucket count of the stdev_ret qcut
nq == 5
nq_vol == 3
stdev_q == 3

\* context.output.index of pipeline_output('my_pipeline')
Universe500 == <<2, 24, 62, 67, 114, 122, 8554>>

Y(a, b, c, d, e, f, g) == <<Num(a), Num(b), Num(c), Num(d), Num(e), Num(f), Num(g)>>

\* What data.history gives on a date: the prices of the first and of the
\* last-but-one of the six days, and the deviation of the daily log returns
\* (a non-negative number, taken as given).  Distinct returns, a missing
\* price, tied returns; distinct, tied and missing deviations.
PriceHistories ==
    { [first |-> Y(10, 10, 10, 10, 10, 10, 10), prev |-> pv, stdevs |-> sd] :
        pv \in { Y(11, 12, 13, 14, 15, 16, 17),
                 <<Num(17), Num(12), NaN, Num(14), Num(15), Num(16), Num(11)>>,
                 Y(10, 10, 10, 10, 10, 10, 12) },
        sd \in { Y(7, 6, 5, 4, 3, 2, 1),
                 Y(1, 2, 2, 2, 3, 3, 4),
                 <<Num(1), NaN, Num(3), Num(4), Num(5), Num(6), Num(7)>> } }

\* the quantile num/den of the ascending values, linearly interpolated
quantile(sorted, num, den) ==
    LET h == (Len(sorted) - 1) * num
        lo == h \div den
        fr == h % den
    IN  IF fr = 0 THEN sorted[lo + 1]
        ELSE Add(sorted[lo + 1],
                 Mul(Norm(fr, den), Sub(sorted[lo + 2], sorted[lo + 1])))

\* pd.qcut(x, q, labels=False): the bin edges are the quantiles 0, 1/q, ..,
\* 1 of the non-NaN values; duplicate edges raise ValueError; a value gets
\* the number of the right-closed bin it falls in (the lowest edge
\* included), NaN gets NaN.
qcut(x, q) ==
    LET sorted == SortSeq(DropNaN(x), Lt)
        bins == [b \in 1..(q + 1) |-> quantile(sorted, b - 1, q)] \o <<>>
        below(v) == Cardinality({b \in 1..(q + 1) : Lt(bins[b], v)})
    IN  IF sorted = <<>> \/ \E a, b \in 1..(q + 1) : a # b /\ bins[a] = bins[b]
        THEN [raised |-> TRUE, labels |-> <<>>]
        ELSE [raised |-> FALSE,
              labels |-> [i \in 1..Len(x) |->
                             IF IsNaN(x[i]) THEN NaN
                             ELSE Num(Max2(below(x[i]), 1) - 1)] \o <<>>]

plus_one(v) == [i \in 1..Len(v) |-> Add(v[i], Num(1))]

\* The index of the pipeline output on a date: the members of Q500US that
\* pass the screen.  All of them, or all but one that has left.
Universes ==
    { Universe500,
      LET stays(x) == x # 24 IN SelectSeq(Universe500, stays) }

\* The schedule: the functions initialize registers, in the order of their
\* registration, each with its minutes before the market close;
\* time_rules.market_close() without an offset is one minute before it.
market_close_minutes == 1
get_prices_unshifted == market_close_minutes
get_prices_minutes == 5
schedule ==
    << [func |-> "my_rebalance", minutes |-> market_close_minutes],
       [func |-> "my_record_vars", minutes |-> market_close_minutes],
       [func |-> "get_prices", minutes |-> get_prices_minutes] >>

\* the order the engine runs them in on a date: by time, and at the same
\* time by registration
run_order ==
    LET earlier(i, j) == \/ schedule[i].minutes > schedule[j].minutes
                         \/ schedule[i].minutes = schedule[j].minutes /\ i < j
        by_time == SortSeq([i \in 1..Len(schedule) |-> i], earlier)
    IN  [k \in 1..Len(schedule) |-> schedule[by_time[k]].func]

\* the function is the next the engine runs
due(func) ==
    LET k == CHOOSE i \in 1..Len(run_order) : run_order[i] = func
    IN  clock = IF k = 1 THEN "before_trading_start" ELSE run_order[k - 1]

\* the date is over: the last function of the schedule has run
date_over == clock \in {"closed", run_order[Len(run_order)]}

estmrs_before_trading_start(universe) ==
    /\ algo = "estmrs"
    /\ raised = ""
    /\ date_over
    /\ orders = <<>>
    /\ day < MaxDays
    /\ output' = [i \in 1..Len(universe) |-> [sid |-> universe[i]]]
    /\ day' = day + 1
    /\ clock' = "before_trading_start"
    /\ UNCHANGED <<algo, registry_vars, factor_vars, longs, shorts, orders, positions,
                   raised, market, portfolio>>

\* get_prices has joined the returns to today's output
priced == output # <<>> /\ "five_day_ret" \in DOMAIN output[1]
\* and both quantile columns
bucketed == priced /\ "stdev_quantile" \in DOMAIN output[1]

estmrs_selection(out, q) ==
    LET chosen(row) == /\ row.ret_quantile = Num(q)
                       /\ Lt(row.stdev_quantile, Num(nq_vol))
    IN  index(SelectSeq(out, chosen))

\* the values data.history has for the securities of the output
of_universe(v) ==
    [i \in 1..Len(output) |->
        v[CHOOSE k \in 1..Len(Universe500) : Universe500[k] = output[i].sid]]

get_prices(h) ==
    /\ algo = "estmrs"
    /\ raised = ""
    /\ due("get_prices")
    /\ LET first == of_universe(h.first) \o <<>>
           prev == of_universe(h.prev) \o <<>>
           stdevs == of_universe(h.stdevs) \o <<>>
           rets == VDiv(VSub(prev, first), first) \o <<>>
           rq == qcut(rets, nq)
           sq == qcut(stdevs, stdev_q)
           ret_quantile == plus_one(rq.labels) \o <<>>
           stdev_quantile == plus_one(sq.labels) \o <<>>
           joined == [i \in 1..Len(output) |->
                         [sid |-> output[i].sid, five_day_ret |-> rets[i],
                          stdev_ret |-> stdevs[i]]]
           with_ret == [i \in 1..Len(output) |->
                           [sid |-> output[i].sid, five_day_ret |-> rets[i],
                            stdev_ret |-> stdevs[i],
                            ret_quantile |-> ret_quantile[i]]]
           full == [i \in 1..Len(output) |->
                       [sid |-> output[i].sid, five_day_ret |-> rets[i],
                        stdev_ret |-> stdevs[i],
                        ret_quantile |-> ret_quantile[i],
                        stdev_quantile |-> stdev_quantile[i]]]
       IN  IF rq.raised
           THEN /\ output' = joined
                /\ raised' = "ValueError"
                /\ UNCHANGED <<longs, shorts>>
           ELSE IF sq.raised
           THEN /\ output' = with_ret
                /\ raised' = "ValueError"
                /\ UNCHANGED <<longs, shorts>>
           ELSE /\ output' = full
                /\ longs' = replace_basket(longs, estmrs_selection(full, 1))
                /\ shorts' = replace_basket(shorts, estmrs_selection(full, nq))
                /\ UNCHANGED raised
    /\ clock' = "get_prices"
    /\ UNCHANGED <<algo, registry_vars, factor_vars, day, orders, positions,
                   market, portfolio>>

\* context.portfolio.positions, in sid order
estmrs_held == LET held(x) == x \in DOMAIN portfolio IN SelectSeq(Universe500, held)

\* the test of the first branch of the loop over the positions: the
\* security has left the universe and can be traded
left_universe_never(security, missing) == FALSE
left_universe(security, missing) ==
    ~in_index(security, index(output)) /\ security \notin missing

\* One pass of the loop of my_rebalance over the positions.  acc holds the
\* orders placed, existing_longs, existing_shorts and the exception raised.
position_step(acc, security, missing) ==
    IF left_universe(security, missing)
    THEN [acc EXCEPT !.orders = Append(@, order_target_percent(security, Num(0), "exit"))]
    ELSE IF security \in missing THEN acc
    ELSE IF ~in_index(security, index(output)) \/ ~bucketed
    THEN [acc EXCEPT !.raised = "KeyError"]
    ELSE LET current_quantile == loc(output, security).ret_quantile
             amount == portfolio[security]
         IN  IF Gt(amount, Num(0))
             THEN IF current_quantile = Num(1) /\ ~in_index(security, longs)
                  THEN [acc EXCEPT !.existing_longs = @ + 1]
                  ELSE IF Gt(current_quantile, Num(1)) /\ ~in_index(security, shorts)
                  THEN [acc EXCEPT !.orders =
                           Append(@, order_target_percent(security, Num(0), "exit"))]
                  ELSE acc
             ELSE IF Lt(amount, Num(0))
             THEN IF current_quantile = Num(nq) /\ ~in_index(security, shorts)
                  THEN [acc EXCEPT !.existing_shorts = @ + 1]
                  ELSE IF Lt(current_quantile, Num(nq)) /\ ~in_index(security, longs)
                  THEN [acc EXCEPT !.orders =
                           Append(@, order_target_percent(security, Num(0), "exit"))]
                  ELSE acc
             ELSE acc

RECURSIVE position_loop(_, _, _)
position_loop(acc, held, missing) ==
    IF held = <<>> \/ acc.raised # "" THEN acc
    ELSE position_loop(position_step(acc, Head(held), missing), Tail(held), missing)

\* .5 / (len(context.longs) + existing_longs)
estmrs_weight(basket, existing) == Div(<<1, 2>>, Num(Len(basket) + existing))

my_rebalance(missing) ==
    /\ algo = "estmrs"
    /\ raised = ""
    /\ due("my_rebalance")
    /\ market' = missing
    /\ LET looped == position_loop([orders |-> <<>>, existing_longs |-> 0,
                                   existing_shorts |-> 0, raised |-> ""],
                                  estmrs_held, missing)
       IN  IF looped.raised # ""
           THEN /\ raised' = looped.raised
                /\ UNCHANGED orders
           ELSE IF ~bucketed /\ day = 1
           THEN /\ raised' = "AttributeError"
                /\ UNCHANGED orders
           ELSE /\ orders' =
                       looped.orders
                    \o orders_for(longs, missing,
                                  estmrs_weight(longs, looped.existing_longs), "long")
                    \o orders_for(shorts, missing,
                                  Neg(estmrs_weight(shorts, looped.existing_shorts)),
                                  "short")
                /\ UNCHANGED raised
    /\ clock' = "my_rebalance"
    /\ UNCHANGED <<algo, registry_vars, factor_vars, day, output, longs, shorts,
                   positions, portfolio>>

my_record_vars ==
    /\ algo = "estmrs"
    /\ raised = ""
    /\ due("my_record_vars")
    /\ clock' = "my_record_vars"
    /\ UNCHANGED <<algo, registry_vars, factor_vars, strategy_vars, market, portfolio>>

\* the holdings once the engine has filled the orders: a target of zero
\* closes the position, any other target becomes its weight
RECURSIVE holdings(_, _)
holdings(held, placed) ==
    IF placed = <<>> THEN held
    ELSE LET o == Head(placed)
             keep == IF o.target = Num(0) THEN DOMAIN held \ {o.sid}
                     ELSE DOMAIN held \cup {o.sid}
         IN  holdings(IF keep = {} THEN <<>>
                      ELSE [s \in keep |-> IF s = o.sid THEN o.target ELSE held[s]],
                      Tail(placed))

\* the engine fills the orders of my_rebalance at the bar after it
estmrs_fill ==
    /\ algo = "estmrs"
    /\ orders # <<>>
    /\ portfolio' = holdings(portfolio, orders)
    /\ positions' = DOMAIN portfolio'
    /\ orders' = <<>>
    /\ UNCHANGED <<algo, registry_vars, factor_vars, day, output, longs, shorts,
                   raised, clock, market>>

-----------------------------------------------------------------------------
(* The rank-weighted strategy over its schedule: before_trading_start at   *)
(* the start of every date, rebalance at the open of the first date of a   *)
(* month, the engine's fills during the session, cancel_open_orders at the *)
(* close of every date.                                                    *)

\* the number of trading dates a behaviour of a scheduled strategy covers,
\* and the number of trading dates of a month
MaxSessions == 3
month_days == 2

\* date_rules.month_start(): the first trading date of each month
month_start(d) == d % month_days = 1 % month_days

\* momentum, quality and volatility while the value factor varies
steady == <<Num(2), Num(2), Num(2), Num(2)>>

\* get_open_orders(security)
get_open_orders(open, security) ==
    LET of_security(o) == o.sid = security IN SelectSeq(open, of_security)

\* the securities get_open_orders() has an entry for
open_order_sids(open) == {open[i].sid : i \in 1..Len(open)}

\* context.longs.index + context.shorts.index: the union of the two indexes
index_union(a, b) ==
    {a[i].sid : i \in 1..Len(a)} \cup {b[i].sid : i \in 1..Len(b)}

\* one loop of rebalance over a basket: a security with an open order is
\* skipped, a tradable one is sent its target
RECURSIVE rw_basket_orders(_, _, _, _)
rw_basket_orders(open, basket, missing, leg) ==
    IF basket = <<>> THEN open
    ELSE LET security == Head(basket).sid
             target == IF leg = "short" THEN Neg(Head(basket).weight)
                       ELSE Head(basket).weight
         IN  rw_basket_orders(
                 IF get_open_orders(open, security) # <<>> \/ security \in missing
                 THEN open
                 ELSE Append(open, order_target_percent(security, target, leg)),
                 Tail(basket), missing, leg)

\* the loop of rebalance over the positions held
RECURSIVE rw_exit_orders(_, _, _, _)
rw_exit_orders(open, held, missing, listed) ==
    IF held = <<>> THEN open
    ELSE rw_exit_orders(
             IF \/ get_open_orders(open, Head(held)) # <<>>
                \/ Head(held) \in missing
                \/ Head(held) \in listed
             THEN open
             ELSE Append(open, order_target_percent(Head(held), Num(0), "exit")),
             Tail(held), missing, listed)

rw_before_trading_start_2(out) ==
    /\ algo = "rank_weighted_2"
    /\ raised = ""
    /\ clock = "closed"
    /\ day < MaxSessions
    /\ \E b \in rw_outcomes(out) :
           /\ shorts' = replace_basket(shorts, b.shorts)
           /\ longs' = replace_basket(longs, b.longs)
    /\ output' = out
    /\ day' = day + 1
    /\ clock' = "before_open"
    /\ UNCHANGED <<algo, registry_vars, factor_vars, orders, positions, raised,
                   market, portfolio>>

\* rebalance, run at the market open of the first trading date of a month;
\* missing are the securities that cannot be traded at that bar
rw_rebalance(missing) ==
    /\ algo = "rank_weighted_2"
    /\ raised = ""
    /\ clock = "before_open"
    /\ month_start(day)
    /\ market' = missing
    /\ orders' =
           rw_exit_orders(
               rw_basket_orders(
                   rw_basket_orders(orders, shorts, missing, "short"),
                   longs, missing, "long"),
               held_list(positions), missing, index_union(longs, shorts))
    /\ clock' = "open"
    /\ UNCHANGED <<algo, registry_vars, factor_vars, day, output, longs, shorts,
                   positions, raised, portfolio>>

\* the engine fills one of the open orders at some bar of the session
rw_fill(i) ==
    /\ algo = "rank_weighted_2"
    /\ clock = "open"
    /\ i \in 1..Len(orders)
    /\ positions' = filled(positions, <<orders[i]>>)
    /\ orders' = SubSeq(orders, 1, i - 1) \o SubSeq(orders, i + 1, Len(orders))
    /\ UNCHANGED <<algo, registry_vars, factor_vars, day, output, longs, shorts,
                   raised, schedule_vars>>

\* what is left open when only the orders of the first security are cancelled
cancelled_first_security(open) ==
    LET others(o) == o.sid # Head(open).sid
    IN  IF open = <<>> THEN open ELSE SelectSeq(open, others)

\* what is left open after every order of every security that has open
\* orders is cancelled
cancelled(open) ==
    LET kept(o) == o.sid \notin open_order_sids(open) IN SelectSeq(open, kept)

\* cancel_open_orders, run at the market close of every trading date, after
\* the handlers of the open
cancel_open_orders ==
    /\ algo = "rank_weighted_2"
    /\ raised = ""
    /\ \/ clock = "open"
       \/ clock = "before_open" /\ ~month_start(day)
    /\ orders' = cancelled(orders)
    /\ clock' = "closed"
    /\ UNCHANGED <<algo, registry_vars, factor_vars, day, output, longs, shorts,
                   positions, raised, market, portfolio>>

-----------------------------------------------------------------------------
(* The 50-day / 200-day moving-average crossover: handle_data is called at *)
(* every minute bar; the engine fills the open orders, oldest first, at    *)
(* the price of a later bar.                                               *)

\* the number of bars a behaviour covers and the capital at the start
MaxBars == 4
starting_cash == 4

\* what data gives at a bar: the current price of the asset and the means
\* of its 50 and of its 200 daily prices
Bars ==
    { [price |-> p, MA1 |-> a[1], MA2 |-> a[2]] :
        p \in {1, 2}, a \in {<<2, 1>>, <<1, 2>>, <<1, 1>>} }

\* int(x / y): the quotient truncated towards zero
int_div(x, y) == IF x >= 0 THEN x \div y ELSE -((-x) \div y)

\* order(asset, amount): an order for a number of shares, none for zero
order(asset, amount, leg) ==
    IF amount = 0 THEN <<>> ELSE <<[sid |-> asset, shares |-> amount, leg |-> leg]>>

\* order_target(asset, 0): an order for the difference between the target
\* and the amount held
order_target(asset, target, held) == order(asset, target - held, "sell")

handle_data(bar) ==
    /\ algo = "crossover"
    /\ raised = ""
    /\ day < MaxBars
    /\ market' = bar
    /\ LET MA1 == bar.MA1
           MA2 == bar.MA2
           current_price == bar.price
           current_positions == portfolio.amount
           cash == portfolio.cash
       IN  IF MA1 > MA2 /\ current_positions = 0
           THEN orders' = orders \o order(spy, int_div(cash, current_price), "buy")
           ELSE IF MA1 < MA2 /\ current_positions # 0
           THEN orders' = orders \o order_target(spy, 0, current_positions)
           ELSE UNCHANGED orders
    /\ day' = day + 1
    /\ UNCHANGED <<algo, registry_vars, factor_vars, output, longs, shorts, positions,
                   raised, clock, portfolio>>

\* the engine fills the oldest open order at the price of the current bar
crossover_fill ==
    /\ algo = "crossover"
    /\ day > 0
    /\ orders # <<>>
    /\ portfolio' = [cash |-> portfolio.cash - Head(orders).shares * market.price,
                     amount |-> portfolio.amount + Head(orders).shares]
    /\ positions' = IF portfolio'.amount = 0 THEN {} ELSE {spy}
    /\ orders' = Tail(orders)
    /\ UNCHANGED <<algo, registry_vars, factor_vars, day, output, longs, shorts,
                   raised, clock, market>>

-----------------------------------------------------------------------------
(* The programs together.                                                  *)

TypeInit ==
    /\ panel = <<>>
    /\ results = <<>>
    /\ day = 0
    /\ output = <<>>
    /\ longs = <<>>
    /\ shorts = IF algo = "lazy" THEN <<spy>> ELSE <<>>
    /\ orders = <<>>
    /\ positions = {}
    /\ raised = ""
    /\ namespace = {}
    /\ all_factors = [n \in {} |-> ""]
    /\ stmt = 0
    /\ clock = "closed"
    /\ market = {}
    /\ portfolio = IF algo = "crossover" THEN [cash |-> starting_cash, amount |-> 0]
                   ELSE <<>>

Init ==
    /\ algo \in {"factors", "catalog", "make_factors", "FACTORS",
                "rank_weighted", "two_factor", "lazy", "estmrs",
                "rank_weighted_2", "crossover"}
    /\ TypeInit

InitFactors == algo = "factors" /\ TypeInit
InitCatalog == algo = "catalog" /\ TypeInit
InitRegistry == algo \in {"make_factors", "FACTORS"} /\ TypeInit
InitStrategies ==
    /\ algo \in {"rank_weighted", "two_factor", "lazy", "estmrs", "rank_weighted_2",
                "crossover"}
    /\ TypeInit

NextStrategies ==
    \/ \E v, s \in CrossSections, m, q \in Steady :
           rw_before_trading_start(factors_output(v, m, q, s))
    \/ \E f1, f2 \in CrossSections : tf_before_trading_start(f1, f2)
    \/ \E missing \in Untradable : tf_rebalance(missing)
    \/ FillOrders
    \/ \E ps \in CrossSections : lazy_before_trading_start(ps)
    \/ lazy_rebalance
    \/ \E universe \in Universes : estmrs_before_trading_start(universe)
    \/ \E h \in PriceHistories : get_prices(h)
    \/ \E missing \in Untradable : my_rebalance(missing)
    \/ my_record_vars
    \/ estmrs_fill
    \/ \E v \in CrossSections :
           rw_before_trading_start_2(factors_output(v, steady, steady, steady))
    \/ \E missing \in Untradable : rw_rebalance(missing)
    \/ \E i \in 1..Len(securities) : rw_fill(i)
    \/ cancel_open_orders
    \/ \E bar \in Bars : handle_data(bar)
    \/ crossover_fill

Next == NextFactors \/ NextCatalog \/ NextRegistry \/ NextStrategies

Spec == Init /\ [][Next]_vars
SpecFactors == InitFactors /\ [][NextFactors]_vars
SpecCatalog == InitCatalog /\ [][NextCatalog]_vars
SpecRegistry == InitRegistry /\ [][NextRegistry]_vars
SpecStrategies == InitStrategies /\ [][NextStrategies]_vars

-----------------------------------------------------------------------------
(* Properties of the factor engine.                                        *)

Today == Len(panel)

\* the orders in which the engine may be handed the columns
Perms == {pi \in [1..Len(assets) -> 1..Len(assets)] :
             \A i, j \in 1..Len(assets) : pi[i] = pi[j] => i = j}

PermuteVec(v, pi) == [c \in 1..Len(v) |-> v[pi[c]]]
PermuteRow(row, pi) == [f \in DOMAIN row |-> PermuteVec(row[f], pi)]
PermutePanel(p, pi) == [r \in 1..Len(p) |-> PermuteRow(p[r], pi)]

\* the panel with the data of column j replaced by the value x on every date
ReplaceColumn(p, j, x) ==
    [r \in 1..Len(p) |->
        [f \in DOMAIN p[r] |->
            [c \in 1..Len(p[r][f]) |-> IF c = j THEN x ELSE p[r][f][c]]]]

\* the entries of v whose index is not in S, in order
RECURSIVE Without(_, _, _)
Without(v, S, c) ==
    IF c > Len(v) THEN <<>>
    ELSE (IF c \in S THEN <<>> ELSE <<v[c]>>) \o Without(v, S, c + 1)

WithoutCols(m, S) == [r \in 1..Len(m) |-> Without(m[r], S, 1)]

\* C1: no look-ahead.  For every date D the window handed to compute is the
\* window of the Panel truncated at D, and the values recorded for D when D
\* was the last date are the values the extended Panel gives for D.
NoLookAhead ==
    algo = "factors" =>
        \A D \in 1..Today :
            /\ D >= window_length =>
                   get_window(panel, "close", window_length, D)
                       = get_window(SubSeq(panel, 1, D), "close", window_length, D)
            /\ results[D] = FactorTable(panel, D)

\* a value was recorded for a date, and later dates brought other prices
NoLookAheadWitness ==
    /\ algo = "factors"
    /\ Today > window_length
    /\ results[window_length].Price_Momentum_12M # DataUnavailable
    /\ results[window_length].Price_Momentum_12M # results[Today].Price_Momentum_12M
    /\ results[window_length].Asset_Turnover # results[Today].Asset_Turnover

\* C2: permutation invariance.  Handing the engine the instruments in
\* another order (the assets vector and every column of every input alike)
\* gives each factor's values in that same order.
PermutationInvariance ==
    algo = "factors" /\ Today > 0 =>
        \A pi \in Perms :
            LET t == FactorTableFor(PermuteVec(assets, pi), PermutePanel(panel, pi), Today)
            IN  \A f \in DOMAIN t : t[f] = PermuteVec(results[Today][f], pi)

\* the beta of two instruments was computed and differs
PermutationWitness ==
    /\ algo = "factors"
    /\ Today >= window_length
    /\ IsFinite(results[Today].Index_Beta[1])
    /\ IsFinite(results[Today].Index_Beta[2])
    /\ results[Today].Index_Beta[1] # results[Today].Index_Beta[2]
    /\ results[Today].Value[1] # results[Today].Value[2]

\* C3: column independence.  Replacing the data of one instrument leaves
\* the value Mean_Reversion_1M computes for every other instrument unchanged.
ColumnIndependence ==
    algo = "factors" /\ Today >= window_length =>
        \A j \in 1..Len(assets), x \in {Num(1), Num(3)} :
            LET t == Mean_Reversion_1M(assets, ReplaceColumn(panel, j, x), Today)
            IN  \A c \in 1..Len(assets) :
                    c # j => t[c] = results[Today].Mean_Reversion_1M[c]

\* C10: failure isolation.  A column on which the indicator raises yields
\* NaN, the output has one entry per instrument in input order, and the
\* other entries are those computed without the failing columns.
MACD_failing(close) ==
    {c \in 1..NumCols(close) :
        talib_MACD(Col(close, c), MACD_periods.fastperiod,
                   MACD_periods.slowperiod, MACD_periods.signalperiod).raised}

STOCH_failing(close, high, low) ==
    {c \in 1..NumCols(close) :
        talib_STOCH(Col(high, c), Col(low, c), Col(close, c),
                    STOCH_periods.fastk_period, STOCH_periods.slowk_period,
                    STOCH_periods.slowd_period).raised}

FailureIsolation ==
    algo = "factors" /\ Today >= tech_window =>
        LET close == get_window(panel, "close", tech_window, Today)
            high == get_window(panel, "high", tech_window, Today)
            low == get_window(panel, "low", tech_window, Today)
            mf == MACD_failing(close)
            sf == STOCH_failing(close, high, low)
            macd == results[Today].MACD_Signal_10d
            stoch == results[Today].Stochastic_Oscillator
        IN  /\ Len(macd) = Len(assets)
            /\ Len(stoch) = Len(assets)
            /\ \A c \in mf : macd[c] = NaN
            /\ \A c \in sf : stoch[c] = NaN
            /\ Without(macd, mf, 1) = MACD_Signal_10d_compute(WithoutCols(close, mf))
            /\ Without(stoch, sf, 1)
                   = Stochastic_Oscillator_compute(WithoutCols(close, sf),
                                                   WithoutCols(high, sf),
                                                   WithoutCols(low, sf))

\* an indicator raised on one column while another column got a number
FailureIsolationWitness ==
    /\ algo = "factors"
    /\ Today >= tech_window
    /\ MACD_failing(get_window(panel, "close", tech_window, Today)) # {}
    /\ \E c \in 1..Len(assets) :
           /\ IsFinite(results[Today].MACD_Signal_10d[c])
           /\ IsFinite(results[Today].Stochastic_Oscillator[c])
           /\ results[Today].Stochastic_Oscillator[c] # Num(0)

-----------------------------------------------------------------------------
(* Properties of the strategies.                                           *)

in_basket(x) ==
    \/ \E i \in 1..Len(longs) : longs[i] = x
    \/ \E i \in 1..Len(shorts) : shorts[i] = x

\* C4: basket replacement.  After before_trading_start (get_prices in the
\* mean-reversion strategy) the baskets are those selected from the current
\* date's output alone; nothing of the prior baskets remains.
BasketReplacement ==
    /\ algo = "rank_weighted" /\ day > 0 =>
           [shorts |-> shorts, longs |-> longs] \in rw_outcomes(output)
    /\ algo = "two_factor" /\ day > 0 =>
           /\ shorts = index(head(tf_sorted(output), list_n))
           /\ longs = index(tail(tf_sorted(output), list_n))
    /\ algo = "estmrs" /\ bucketed =>
           /\ longs = estmrs_selection(output, 1)
           /\ shorts = estmrs_selection(output, nq)

\* a security bought for an earlier basket is in neither basket today
BasketReplacementWitness ==
    /\ algo = "two_factor"
    /\ day > 1
    /\ longs # <<>>
    /\ \E x \in positions : ~in_basket(x)

long_orders(placed) ==
    LET is_long(o) == o.leg = "long" IN SelectSeq(placed, is_long)

\* C5: equal-weight policy.  Every long order a rebalance places has the
\* target long_leverage / len(long basket), 0.5 / 50 is 0.01, and the long
\* targets of a rebalance sum to at most long_leverage.
EqualWeightPolicy ==
    [][ /\ long_weight(long_leverage("two_factor"), 50) = <<1, 100>>
        /\ algo \in {"two_factor", "lazy"} /\ orders = <<>> /\ orders' # <<>> =>
               /\ \A i \in 1..Len(long_orders(orders')) :
                      long_orders(orders')[i].target
                          = Div(long_leverage(algo), Num(Len(longs)))
               /\ Le(SumSeq(Column(long_orders(orders'), "target")),
                     long_leverage(algo)) ]_vars

\* a rebalance ordered some but not all of a long basket of several
EqualWeightPolicyWitness ==
    /\ algo = "two_factor"
    /\ Len(longs) > 1
    /\ Len(long_orders(orders)) > 0
    /\ Len(long_orders(orders)) < Len(longs)

\* C6: ranking excludes non-finite values.  No security in a basket has a
\* NaN or infinite value in a ranked factor of the current output.
NonFiniteExcluded ==
    /\ algo = "rank_weighted" /\ day > 0 =>
           \A b \in {longs, shorts} : \A i \in 1..Len(b) :
               \A c \in 1..Len(factor_columns) :
                   IsFinite(loc(output, b[i].sid)[factor_columns[c]])
    /\ algo = "two_factor" /\ day > 0 =>
           \A b \in {longs, shorts} : \A i \in 1..Len(b) :
               /\ IsFinite(loc(output, b[i]).factor_1)
               /\ IsFinite(loc(output, b[i]).factor_2)

\* the order a stable sort gives: equal keys stay in index (sid) order
stable_order(keys) ==
    CHOOSE pi \in order_outcomes(keys) :
        \A i, j \in 1..Len(keys) :
            i < j /\ keys[pi[i]] = keys[pi[j]] => pi[i] < pi[j]

\* C7: deterministic tie-breaking.  The baskets are the ones a stable sort
\* on the security identifier gives, the only outcome for the output.
DeterministicTieBreaking ==
    /\ algo = "rank_weighted" /\ day > 0 =>
           /\ Cardinality(rw_outcomes(output)) = 1
           /\ [shorts |-> shorts, longs |-> longs]
                  = rw_baskets(output, stable_order(mean_rank(dropna(output))))

bucket_size(col, b) == Cardinality({i \in 1..Len(col) : col[i] = Num(b)})
balanced(col, q) ==
    \A a, b \in 1..q : bucket_size(col, a) - bucket_size(col, b) <= 1

\* C8: quantile bucketing.  get_prices assigns every security with a
\* non-NaN value to a bucket, the bucket sizes differ by at most 1, and a
\* security with a NaN value has no bucket and is in neither basket.
QuantileBucketing ==
    algo = "estmrs" /\ priced =>
        /\ raised = ""
        /\ bucketed
        /\ balanced(Column(output, "ret_quantile"), nq)
        /\ balanced(Column(output, "stdev_quantile"), stdev_q)
        /\ \A i \in 1..Len(output) :
               /\ IsNaN(output[i].five_day_ret) <=> IsNaN(output[i].ret_quantile)
               /\ IsNaN(output[i].stdev_ret) <=> IsNaN(output[i].stdev_quantile)
               /\ IsNaN(output[i].five_day_ret) \/ IsNaN(output[i].stdev_ret) =>
                      ~in_basket(output[i].sid)

negated(v) == [i \in 1..Len(v) |-> Neg(v[i])]
\* r |-> N + 1 - r over the N values that are ranked
reversed(rk) ==
    LET N == Cardinality({i \in 1..Len(rk) : ~IsNaN(rk[i])})
    IN  [i \in 1..Len(rk) |-> IF IsNaN(rk[i]) THEN NaN ELSE Sub(Num(N + 1), rk[i])]
distinct_values(v) ==
    \A i, j \in 1..Len(v) : i # j /\ ~IsNaN(v[i]) => v[i] # v[j]

pipeline_ranked == {"factor_1", "factor_2", "combo_raw"}

-----------------------------------------------------------------------------
(* Properties of the factor catalogs.                                      *)

\* price * volume of the dates from..D of column c, each signed by the
\* comparison of its price with the price of the date before it
RECURSIVE signed_flow(_, _, _, _)
signed_flow(p, c, from, D) ==
    IF D < from THEN Num(0)
    ELSE LET before == signed_flow(p, c, from, D - 1)
             flow == Mul(p[D].close[c], p[D].volume[c])
         IN  IF Gt(p[D].close[c], p[D - 1].close[c])
             THEN Add(before, flow) ELSE Sub(before, flow)

\* C11: money-flow ratio.  On every date with a prior day before the
\* window, Moneyflow_Volume_5d of each instrument is the sum of price *
\* volume over the window, each day signed by comparison with the day
\* immediately before it, divided by dot(close, volume).
MoneyFlowRatio ==
    algo = "catalog" =>
        \A D \in (Moneyflow_window + 1)..Len(panel) : \A c \in 1..Len(assets) :
            results[D].Moneyflow_Volume_5d[c]
                = Div(signed_flow(panel, c, D - Moneyflow_window + 1, D),
                      np_dot(Col(get_window(panel, "close", Moneyflow_window, D), c),
                             Col(get_window(panel, "volume", Moneyflow_window, D), c)))

pm_windows == {w_1M, w_3M, w_6M, w_39W, w_12M}

\* the closes 100, 102, 101, 105, 103 of one instrument, as a window
example_closes == <<<<Num(100)>>, <<Num(102)>>, <<Num(101)>>, <<Num(105)>>, <<Num(103)>>>>

\* C12: price momentum.  For each of the five windows and every instrument
\* the factor is (last close - first close) / first close of the window,
\* whatever the rows in between; the closes 100, 102, 101, 105, 103 give
\* 3/100.
PriceMomentum ==
    /\ Price_Momentum_1M_compute(example_closes) = << <<3, 100>> >>
    /\ Price_Momentum_3M_compute(example_closes) = << <<3, 100>> >>
    /\ Price_Momentum_6M_compute(example_closes) = << <<3, 100>> >>
    /\ Returns_39W_compute(example_closes) = << <<3, 100>> >>
    /\ Price_Momentum_12M_compute(example_closes) = << <<3, 100>> >>
    /\ algo = "catalog" =>
           \A D \in 1..Len(panel) : \A N \in pm_windows :
               D >= N =>
                   /\ \A c \in 1..Len(assets) :
                          results[D].Price_Momentum[N][c]
                              = Div(Sub(panel[D].close[c], panel[D - N + 1].close[c]),
                                    panel[D - N + 1].close[c])
                   /\ \A d \in (D - N + 2)..(D - 1) : \A row \in CatalogRows :
                          Price_Momentum([panel EXCEPT ![d] = row], D)[N]
                              = results[D].Price_Momentum[N]

\* the longest window is full, its interior differs from both ends, and
\* the momentum of an instrument is neither zero nor NaN
PriceMomentumWitness ==
    /\ algo = "catalog"
    /\ Len(panel) >= w_12M
    /\ LET D == Len(panel)
       IN  /\ \E d \in (D - w_12M + 2)..(D - 1) :
                  /\ panel[d].close[1] # panel[D].close[1]
                  /\ panel[d].close[1] # panel[D - w_12M + 1].close[1]
           /\ IsFinite(results[D].Price_Momentum[w_12M][1])
           /\ results[D].Price_Momentum[w_12M][1] # Num(0)

\* the simple returns of column c over the dates from + 1 .. D: one for
\* each pair of consecutive dates
simple_returns(p, c, from, D) ==
    [i \in 1..(D - from) |->
        Div(Sub(p[from + i].close[c], p[from + i - 1].close[c]),
            p[from + i - 1].close[c])]

centred(s) == LET m == mean(s) IN [i \in 1..Len(s) |-> Sub(s[i], m)] \o <<>>

\* cov(x, y) / var(y): the sums of products of the centred series
slope(x, y) ==
    LET cx == centred(x)
        cy == centred(y)
    IN  Div(SumSeq([i \in 1..Len(x) |-> Mul(cx[i], cy[i])]),
            SumSeq([i \in 1..Len(y) |-> Mul(cy[i], cy[i])]))

\* C13: index beta.  Index_Beta of each instrument is cov(instrument
\* returns, benchmark returns) / var(benchmark returns) over the
\* window_length - 1 consecutive simple returns of the window; a covariance
\* of 0.002 and a benchmark variance of 0.001 give 2.
IndexBeta ==
    /\ Div(<<2, 1000>>, <<1, 1000>>) = Num(2)
    /\ algo = "factors" =>
           \A D \in window_length..Len(panel) : \A c \in 1..Len(assets) :
               LET from == D - window_length + 1
                   b == benchmark_index(assets)
               IN  /\ Len(col_returns(Col(get_window(panel, "close", window_length, D), c)))
                          = window_length - 1
                   /\ results[D].Index_Beta[c]
                          = slope(simple_returns(panel, c, from, D),
                                  simple_returns(panel, b, from, D))

\* a window whose benchmark returns vary and an instrument other than the
\* benchmark with a beta that is a number
IndexBetaWitness ==
    /\ algo = "factors"
    /\ Len(panel) >= window_length
    /\ LET beta == results[Len(panel)].Index_Beta
       IN  /\ IsFinite(beta[1])
           /\ beta[1] # Num(0)
           /\ beta[1] # Num(1)
           /\ beta[3] = Num(1)

\* C14: annualised ratio.  In both catalogs EBIT_To_Assets of every
\* instrument is (latest quarterly EBIT * 4) / latest total assets, the two
\* implementations agree, and EBIT 50 with total assets 2000 gives 1/10.
AnnualisedRatio ==
    algo = "catalog" =>
        \A D \in 1..Len(panel) :
            /\ results[D].EBIT_To_Assets.latest = results[D].EBIT_To_Assets.custom
            /\ \A c \in 1..Len(assets) :
                   /\ results[D].EBIT_To_Assets.custom[c]
                          = Div(Mul(panel[D].ebit[c], Num(4)), panel[D].tot_assets[c])
                   /\ panel[D].ebit[c] = Num(50) /\ panel[D].tot_assets[c] = Num(2000) =>
                          /\ results[D].EBIT_To_Assets.latest[c] = <<1, 10>>
                          /\ results[D].EBIT_To_Assets.custom[c] = <<1, 10>>

\* a date with EBIT 50 and total assets 2000 after a date with other
\* fundamentals, and an instrument whose total assets are zero
AnnualisedRatioWitness ==
    /\ algo = "catalog"
    /\ Len(panel) > 1
    /\ panel[Len(panel)].ebit[1] = Num(50)
    /\ panel[Len(panel)].tot_assets[1] = Num(2000)
    /\ panel[Len(panel) - 1].ebit[1] # Num(50)
    /\ \E D \in 1..Len(panel) : \E c \in 1..Len(assets) :
           results[D].EBIT_To_Assets.custom[c] = Inf

\* the column has exactly one entry that is not NaN
single_sample(col) == Len(DropNaN(col)) = 1

\* C15: single-sample rolling statistics.  For a window column with exactly
\* one non-NaN entry the nan-aware mean is that entry and the standard
\* deviation of Vol_3M and of Downside_Risk is NaN.
SingleSampleStatistics ==
    algo = "catalog" =>
        \A D \in 1..Len(panel) : \A c \in 1..Len(assets) :
            /\ D >= window_length =>
                   LET col == Col(get_window(panel, "close", window_length, D), c)
                   IN  single_sample(col) => nanmean(col) = DropNaN(col)[1]
            /\ D >= vol_window + 1 =>
                   LET col == Col(returns_window(panel, vol_window, D), c)
                   IN  single_sample(col) => IsNaN(results[D].Vol_3M[c])
            /\ D >= window_length + 1 =>
                   LET col == down_rets(Col(returns_window(panel, window_length, D), c))
                   IN  single_sample(col) => IsNaN(results[D].Downside_Risk[c])

nan_free(col) == \A i \in 1..Len(col) : ~IsNaN(col[i])

\* C16: trendline slope.  For every close column without NaN the two
\* Trendline implementations return the regression slope cov(x, y) / var(x)
\* of the closes against the day index 0 .. window_length - 1, and so the
\* same value.
TrendlineSlope ==
    algo = "catalog" =>
        \A D \in window_length..Len(panel) : \A c \in 1..Len(assets) :
            LET col == Col(get_window(panel, "close", window_length, D), c)
            IN  nan_free(col) =>
                    LET beta == slope(col, days(window_length))
                    IN  /\ results[D].Trendline.vectorised[c] = beta
                        /\ results[D].Trendline.custom[c] = beta
                        /\ results[D].Trendline.vectorised[c]
                               = results[D].Trendline.custom[c]

\* a NaN-free window of closes that are not on a line, with a slope other
\* than zero
TrendlineSlopeWitness ==
    /\ algo = "catalog"
    /\ Len(panel) >= window_length
    /\ LET D == Len(panel)
           col == Col(get_window(panel, "close", window_length, D), 1)
       IN  /\ nan_free(col)
           /\ Sub(col[2], col[1]) # Sub(col[3], col[2])
           /\ results[D].Trendline.custom[1] # Num(0)
           /\ IsFinite(results[D].Trendline.vectorised[1])

-----------------------------------------------------------------------------
(* Properties of the strategies, continued.                                *)

basket_sids(b) == {b[i].sid : i \in 1..Len(b)}
ranked_sids == {dropna(output)[i].sid : i \in 1..Len(dropna(output))}

\* C17: inverse-rank weighting.  After before_trading_start of the
\* rank-weighted strategy the short basket is the K securities of lowest
\* composite rank weighted in proportion to 1 / rank, the long basket the K
\* of highest composite rank weighted in proportion to rank; every weight
\* is positive and the weights of each basket sum to 1.
InverseRankWeighting ==
    algo = "rank_weighted" /\ day > 0 =>
        LET res == dropna(output)
            mr == mean_rank(res) \o <<>>
            \* the composite rank of the security x
            composite_rank(x) == mr[CHOOSE i \in 1..Len(res) : res[i].sid = x]
            K == Min2(head_n, Len(res))
        IN  /\ Cardinality(basket_sids(shorts)) = K
            /\ Cardinality(basket_sids(longs)) = K
            /\ \A x \in basket_sids(shorts) : \A y \in ranked_sids \ basket_sids(shorts) :
                   Le(composite_rank(x), composite_rank(y))
            /\ \A x \in basket_sids(longs) : \A y \in ranked_sids \ basket_sids(longs) :
                   Le(composite_rank(y), composite_rank(x))
            /\ \A i, j \in 1..Len(shorts) :
                   Mul(shorts[i].weight, composite_rank(shorts[i].sid))
                       = Mul(shorts[j].weight, composite_rank(shorts[j].sid))
            /\ \A i, j \in 1..Len(longs) :
                   Mul(longs[i].weight, composite_rank(longs[j].sid))
                       = Mul(longs[j].weight, composite_rank(longs[i].sid))
            /\ \A i \in 1..Len(shorts) : Gt(shorts[i].weight, Num(0))
            /\ \A i \in 1..Len(longs) : Gt(longs[i].weight, Num(0))
            /\ SumSeq(Column(shorts, "weight")) = Num(1)
            /\ SumSeq(Column(longs, "weight")) = Num(1)

\* baskets of K securities out of more than K, with unequal weights
InverseRankWeightingWitness ==
    /\ algo = "rank_weighted"
    /\ day > 0
    /\ Cardinality(ranked_sids) > head_n
    /\ Len(shorts) = head_n
    /\ Len(longs) = head_n
    /\ shorts[1].weight # shorts[2].weight
    /\ longs[1].weight # longs[2].weight

\* the sids of the n rows of lowest ps_rank, all rows when there are n or fewer
lowest_ps_rank(out, n) ==
    {out[i].sid : i \in {k \in 1..Len(out) :
        Cardinality({j \in 1..Len(out) : Lt(out[j].ps_rank, out[k].ps_rank)}) < n}}

\* C18: price-to-sales selection.  After before_trading_start the long
\* list holds the 20 securities of the output with the lowest ps_rank (all
\* of them when the output has 20 rows or fewer) and no other.
PriceToSalesSelection ==
    algo = "lazy" /\ day > 0 =>
        {longs[i] : i \in 1..Len(longs)} = lowest_ps_rank(output, drop_n)

\* C19: NaN removal before selection.  In the two-factor strategy every
\* security of the long list and of the short list has factor_1 > 0 and
\* factor_2 > 0, neither being NaN.
NaNRemovalBeforeSelection ==
    algo = "two_factor" /\ day > 0 =>
        \A b \in {longs, shorts} : \A i \in 1..Len(b) :
            /\ Gt(loc(output, b[i]).factor_1, Num(0))
            /\ Gt(loc(output, b[i]).factor_2, Num(0))

-----------------------------------------------------------------------------
(* Properties of the registries.                                           *)

\* the catalog has been executed to its end
catalog_built ==
    /\ algo \in {"make_factors", "FACTORS"}
    /\ stmt = Len(definitions_of(algo)) + Len(entries_of(algo))

names_of(factor) == {n \in DOMAIN all_factors : all_factors[n] = factor}

\* C20: catalog registration.  In each catalog, once built, every factor
\* the catalog defines is registered in the mapping under exactly one
\* name, and no two names map to the same factor.
CatalogRegistration ==
    catalog_built =>
        /\ \A factor \in namespace : Cardinality(names_of(factor)) = 1
        /\ \A n1, n2 \in DOMAIN all_factors :
               all_factors[n1] = all_factors[n2] => n1 = n2

-----------------------------------------------------------------------------
(* Properties of the rebalances.                                           *)

short_orders(placed) ==
    LET is_short(o) == o.leg = "short" IN SelectSeq(placed, is_short)

\* C21: short side sign.  In the equal-weight rebalance with
\* short_leverage = -0.50 every short order placed has the strictly
\* negative target short_leverage / len(short basket), and every long order
\* placed has a strictly positive target.
ShortSideSign ==
    [][ algo = "two_factor" /\ orders = <<>> /\ orders' # <<>> =>
            /\ short_leverage(algo) = <<-1, 2>>
            /\ \A i \in 1..Len(short_orders(orders')) :
                   /\ Lt(short_orders(orders')[i].target, Num(0))
                   /\ short_orders(orders')[i].target
                          = Div(short_leverage(algo), Num(Len(shorts)))
            /\ \A i \in 1..Len(long_orders(orders')) :
                   Gt(long_orders(orders')[i].target, Num(0)) ]_vars

\* the securities a rebalance sent a target of zero
sent_zero(placed) ==
    {placed[i].sid : i \in {k \in 1..Len(placed) : placed[k].target = Num(0)}}

\* the securities of the two current baskets
in_baskets ==
    IF algo = "rank_weighted_2" THEN basket_sids(longs) \cup basket_sids(shorts)
    ELSE {x \in 1..spy : in_index(x, longs) \/ in_index(x, shorts)}

OrderCancellationAtClose ==
    /\ [](algo = "rank_weighted_2" /\ clock \in {"closed", "before_open"} =>
              orders = <<>>)
    /\ [][ algo = "rank_weighted_2" /\ clock = "before_open" /\ clock' = "open" =>
               /\ orders = <<>>
               /\ \A s \in in_baskets \ market' :
                      get_open_orders(orders', s) # <<>> ]_vars

\* the second monthly rebalance has placed its orders after every order of
\* the first went unfilled and was cancelled at the close
OrderCancellationAtCloseWitness ==
    /\ algo = "rank_weighted_2"
    /\ day > month_days
    /\ clock = "open"
    /\ positions = {}
    /\ Len(orders) > 1

-----------------------------------------------------------------------------
(* Properties of the mean-reversion strategy over its schedule.            *)

\* C24: daily ordering.  On every date get_prices runs after
\* before_trading_start, my_rebalance after get_prices and my_record_vars
\* after my_rebalance; my_rebalance reads an output that has ret_quantile
\* and the baskets get_prices selected from that output.
DailyOrdering ==
    [][ algo = "estmrs" =>
            /\ clock' = "get_prices" /\ clock # clock' =>
                   clock = "before_trading_start"
            /\ clock' = "my_rebalance" /\ clock # clock' =>
                   /\ clock = "get_prices"
                   /\ bucketed
                   /\ longs = estmrs_selection(output, 1)
                   /\ shorts = estmrs_selection(output, nq)
            /\ clock' = "my_record_vars" /\ clock # clock' =>
                   clock = "my_rebalance" ]_vars

\* my_rebalance of the second date has placed orders for new baskets
DailyOrderingWitness ==
    /\ algo = "estmrs"
    /\ day > 1
    /\ clock = "my_rebalance"
    /\ bucketed
    /\ orders # <<>>
    /\ positions # {}

\* the weights held in the securities my_rebalance counts in existing_longs
\* (sign 1) or in existing_shorts (sign -1): held on that side, tradable,
\* in the bucket of the side and not in its basket
retained_weights(sign, missing) ==
    LET retained(x) ==
            /\ x \in DOMAIN portfolio
            /\ x \notin missing
            /\ in_index(x, index(output))
            /\ IF sign = 1
               THEN /\ Gt(portfolio[x], Num(0))
                    /\ loc(output, x).ret_quantile = Num(1)
                    /\ ~in_index(x, longs)
               ELSE /\ Lt(portfolio[x], Num(0))
                    /\ loc(output, x).ret_quantile = Num(nq)
                    /\ ~in_index(x, shorts)
        kept == SelectSeq(Universe500, retained)
    IN  [i \in 1..Len(kept) |-> portfolio[kept[i]]]

\* C25: leverage bound.  After my_rebalance the targets of the longs it
\* ordered plus the weights of the longs it retained sum to at most 0.5,
\* and those of the shorts to at least -0.5.
LeverageBound ==
    [][ algo = "estmrs" /\ clock' = "my_rebalance" /\ clock # clock' /\ raised' = "" =>
            /\ Le(Add(SumSeq(Column(long_orders(orders'), "target")),
                      SumSeq(retained_weights(1, market'))),
                  <<1, 2>>)
            /\ Le(<<-1, 2>>,
                  Add(SumSeq(Column(short_orders(orders'), "target")),
                      SumSeq(retained_weights(-1, market')))) ]_vars

\* the held securities that are not in the output of the date
left_the_universe == {x \in DOMAIN portfolio : ~in_index(x, index(output))}

\* C26: safe quantile lookup.  my_rebalance never looks up the ret_quantile
\* of a security the output lacks: a held security that has left the
\* universe is sent a target of zero when it can be traded and no order
\* when it cannot.
SafeQuantileLookup ==
    /\ [](algo = "estmrs" => raised # "KeyError")
    /\ [][ algo = "estmrs" /\ clock' = "my_rebalance" /\ clock # clock' =>
               \A x \in left_the_universe :
                   IF x \in market'
                   THEN get_open_orders(orders', x) = <<>>
                   ELSE /\ x \in sent_zero(orders')
                        /\ Len(get_open_orders(orders', x)) = 1 ]_vars

\* my_rebalance has unwound a held security that left the universe
SafeQuantileLookupWitness ==
    /\ algo = "estmrs"
    /\ clock = "my_rebalance"
    /\ raised = ""
    /\ \E x \in left_the_universe : x \in sent_zero(orders)
    /\ \E x \in DOMAIN portfolio : x \notin left_the_universe

-----------------------------------------------------------------------------
(* Properties of the crossover.                                            *)

\* the orders a call of handle_data placed
placed_by_call == SubSeq(orders', Len(orders) + 1, Len(orders'))

buy_orders(open) == LET is_buy(o) == o.leg = "buy" IN SelectSeq(open, is_buy)

\* C27: crossover transitions.  handle_data buys only when MA50 > MA200
\* and the position is zero, sends a target of zero only when MA50 < MA200
\* and the position is not zero, and places no order otherwise; a buy is
\* for floor(cash / price) shares; the position is never negative and the
\* cost of a buy never exceeds the cash.
CrossoverTransitions ==
    /\ [][ algo = "crossover" /\ day' = day + 1 =>
               /\ Len(placed_by_call) <= 1
               /\ \A i \in 1..Len(placed_by_call) :
                      IF placed_by_call[i].leg = "buy"
                      THEN /\ market'.MA1 > market'.MA2
                           /\ portfolio.amount = 0
                           /\ placed_by_call[i].shares
                                  = int_div(portfolio.cash, market'.price)
                      ELSE /\ market'.MA1 < market'.MA2
                           /\ portfolio.amount # 0
                           /\ placed_by_call[i].shares = -portfolio.amount
               /\ ~(market'.MA1 > market'.MA2 /\ portfolio.amount = 0)
                  /\ ~(market'.MA1 < market'.MA2 /\ portfolio.amount # 0) =>
                      placed_by_call = <<>> ]_vars
    /\ [](algo = "crossover" => portfolio.amount >= 0)
    /\ [][ algo = "crossover" /\ orders # <<>> /\ orders' = Tail(orders)
           /\ Head(orders).leg = "buy" =>
               Head(orders).shares * market.price <= portfolio.cash ]_vars

\* C28: no duplicate entry orders.  At most one buy order is open at any
\* time, and the shares of the open buy orders together never exceed those
\* of the first of them, floor(cash / price) at the first buy.
NoDuplicateEntryOrders ==
    algo = "crossover" /\ buy_orders(orders) # <<>> =>
        /\ Len(buy_orders(orders)) <= 1
        /\ Le(SumSeq([k \in 1..Len(buy_orders(orders)) |->
                         Num(buy_orders(orders)[k].shares)]),
              Num(Head(buy_orders(orders)).shares))

-----------------------------------------------------------------------------
(* Properties of the baskets.                                              *)

\* the securities of a basket of either kind of strategy
members(basket) ==
    IF algo \in {"rank_weighted", "rank_weighted_2"} THEN basket_sids(basket)
    ELSE {basket[i] : i \in 1..Len(basket)}

\* C29: disjoint baskets.  After before_trading_start the long and the
\* short basket share no security, whatever the number of rows ranked, and
\* the orders of a rebalance hold no long and short target for one security.
DisjointBaskets ==
    algo \in {"rank_weighted", "rank_weighted_2", "two_factor"} /\ day > 0 =>
        /\ members(longs) \cap members(shorts) = {}
        /\ \A i, j \in 1..Len(orders) :
               orders[i].leg = "long" /\ orders[j].leg = "short" =>
                   orders[i].sid # orders[j].sid

====
